---- MODULE Spec2Model ----
(***************************************************************************)
(* Model of the weekly on-call scheduler of sevens_rain                    *)
(* (src/src/sevens_rain/scheduler.py, rules.py, models.py).                *)
(*                                                                         *)
(* One behaviour of Spec is a sequence of generate_week calls for one       *)
(* roster; AnyInputSpec adds the inputs a caller should not pass and the    *)
(* fairness of the steps.  CatalogSpec is the rule catalog under add_rule   *)
(* and remove_rule, StorageSpec the storage file of PlanStorage             *)
(* (storage.py) under save_week, delete_week and clear_all.  MonthSpec is   *)
(* ExcelGenerator._get_or_generate_month_weeks (excel_generator.py) called  *)
(* for months in any order on one storage file.                            *)
(* Employees are the numbers 1..n: employee k is the k-th name of the      *)
(* roster, and the roster is listed in alphabetical order, so that the     *)
(* alphabetical sort of _select_by_fairness_score is the numeric order.    *)
(* Days are 0..6, Monday = 0.  Fairness scores are the source's floating   *)
(* point scores multiplied by 100, which makes every term an integer.      *)
(***************************************************************************)
EXTENDS Integers, Sequences, FiniteSets, TLC

\* ------------------------------------------------------------------ bounds
\* Largest roster size that is explored.
MaxEmp == 5
\* Number of consecutive weeks generated when starting from an empty history.
MaxWeeks == 2
\* Largest identity handed out to a rule object: the six default rules and a
\* rule added by add_rule.
MaxRuleId == 7
\* Number of week_start dates that plans are saved for.
MaxStoredWeeks == 4
\* Number of months of the calendar that schedules are asked for.
MaxMonths == 3

\* Number of WeekScheduler objects constructed in one run.
MaxSchedulers == 2

\* --------------------------------------------------------------- constants
\* Threshold of the "high priority" rules in the emergency and repair code.
HighPriority == 88
\* Threshold of _can_assign_for_minimum_oncall (rules of priority > 100).
MinimumOnCallPriority == 100
\* tolerance = 0.1 of _select_by_fairness_score, times 100.
Tolerance == 10
\* new_gap < current_gap - 0.2 of _would_swap_improve_fairness, times 100.
SwapGain == 20
\* max_improvements of _optimize_fairness_post_assignment.
MaxImprovements == 3
\* available_days <= 2 marks a high-risk employee.
HighRiskDays == 2
\* count=4 of load_previous_weeks in _get_or_generate_month_weeks.
HistoryCount == 4

Days == 0..6

\* DayType, and None for a cell that holds nothing.
WORK == "WORK"
ON_CALL == "ON_CALL"
REST == "REST"
None == "None"
DayType == {WORK, ON_CALL, REST}

VARIABLES
    n,          \* size of the roster; self.employees is <<1, ..., n>>
    prev,       \* previous_data: sequence of week grids, most recent first
    week,       \* week_plan.assignments: [Days -> [1..n -> DayType or None]]
    metadata,   \* week_plan.metadata: the set of its keys
    pc,         \* position inside generate_week
    stack,      \* employees chosen by the active _backtrack_oncall_assignment frames
    cand,       \* next employee of the loop of the innermost frame
    fbDay,      \* day of the loop of _assign_on_call_duties
    needing,    \* employees_needing_oncall
    intelOk,    \* result of _intelligent_rule2_compliance
    pending,    \* what the running loop of the repair has left to handle
    swap,       \* the swap of the repair whose first write is done, <<>> if none
    improvements_made,  \* improvements_made of _optimize_fairness_post_assignment
    cspOk,      \* result of _generate_with_csp
    log,        \* assignments announced on the console as emergency assignments
    weeksLeft,  \* weeks still to generate after this one
    rules,      \* self.rules: the rule catalog of the scheduler
    week_start, \* week_plan.week_start as a day number; day 0 is a Monday
    store,      \* data["weeks"] of the storage file of PlanStorage
    lastSaved,  \* per week_start, the plan of the last save_week still in force
    month,      \* month of the running _get_or_generate_month_weeks, 0 if none
    current_monday, \* current_monday of its loop, as a day number
    month_weeks, \* month_weeks of its loop: the plans it returns
    module_rules, \* the module-level list DEFAULT_RULES as it is now
    schedulers  \* the WeekScheduler objects constructed so far: for each,
                \* whether self.rules is the module-level list, else its own list

vars == <<n, prev, week, metadata, pc, stack, cand, fbDay, needing, intelOk, pending,
          swap, improvements_made,
          cspOk, log, weeksLeft, rules, week_start, store, lastSaved, month,
          current_monday, month_weeks, module_rules, schedulers>>

\* What no step of generate_week assigns: the roster, the catalog, the
\* week_start of the plan, the storage file and the loop of the caller.
untouched == <<n, rules, week_start, store, lastSaved, month, current_monday, month_weeks,
               module_rules, schedulers>>

Emps == 1..n

\* ----------------------------------------------------------------- WeekPlan
EmptyWeek(k) == [d \in Days |-> [e \in 1..k |-> None]]

GetAssignment(plan, day, e) == plan[day][e]

SetAssignment(plan, day, e, t) == [plan EXCEPT ![day][e] = t]

\* set_assignment(d, e, t) for every d of ds
SetAssignments(plan, ds, e, t) ==
    [d \in Days |-> IF d \in ds THEN [plan[d] EXCEPT ![e] = t] ELSE plan[d]]

GetOnCallEmployees(plan, day) ==
    {e \in DOMAIN plan[day] : plan[day][e] = ON_CALL}

OnCallCount(plan, e) == Cardinality({d \in Days : plan[d][e] = ON_CALL})

\* -------------------------------------------------------------------- rules
\* Every rule that does not merely return True returns True at once for a
\* day_type other than ON_CALL.

DailyOnCallCoverageRule(e, day, t, plan, pd) == TRUE

MinimumOnCallPerWeekRule(e, day, t, plan, pd) == TRUE

WeekendRestAfterOnCallRule(e, day, t, plan, pd) ==
    IF t # ON_CALL THEN TRUE
    ELSE IF pd = <<>> THEN TRUE
    ELSE /\ ~(day \in {0, 1} /\ \E wd \in {5, 6} : e \in GetOnCallEmployees(pd[1], wd))
         /\ ~(day = 0 /\ e \in GetOnCallEmployees(pd[1], 4))

RestAfterOnCallRule(e, day, t, plan, pd) ==
    IF t # ON_CALL THEN TRUE
    ELSE /\ ~(day > 0 /\ GetAssignment(plan, day - 1, e) = ON_CALL)
         /\ ~(day = 0 /\ pd # <<>> /\ GetAssignment(pd[1], 6, e) = ON_CALL)

ThursdayOnCallExtendedRestRule(e, day, t, plan, pd) ==
    IF t # ON_CALL THEN TRUE
    ELSE ~(day = 0 /\ pd # <<>> /\ e \in GetOnCallEmployees(pd[1], 3))

NoConsecutiveWeekdayRule(e, day, t, plan, pd) ==
    IF t # ON_CALL THEN TRUE
    ELSE IF pd = <<>> THEN TRUE
    ELSE e \notin GetOnCallEmployees(pd[1], day)

TwoOnCallPerWeekRule(e, day, t, plan, pd) ==
    IF t # ON_CALL THEN TRUE
    ELSE Cardinality({d \in Days : plan[d][e] = ON_CALL}) < 2

WeekendRestPreferenceRule(e, day, t, plan, pd) == TRUE

FairRotationRule(e, day, t, plan, pd) == TRUE

\* get_priority() of each rule class, by get_name().
RulePriority ==
    [DailyOnCallCoverageRule        |-> 110,
     MinimumOnCallPerWeekRule       |-> 105,
     WeekendRestAfterOnCallRule     |-> 100,
     RestAfterOnCallRule            |-> 90,
     ThursdayOnCallExtendedRestRule |-> 85,
     NoConsecutiveWeekdayRule       |-> 80,
     TwoOnCallPerWeekRule           |-> 70,
     FairRotationRule               |-> 30,
     WeekendRestPreferenceRule      |-> 20]

RuleClasses == DOMAIN RulePriority

\* A rule object: its class name, its priority and its identity.  Identities
\* are numbered in the order in which the objects enter a catalog.
RuleObject(name, id) == [name |-> name, priority |-> RulePriority[name], id |-> id]

\* The module-level list, in the order of its declaration.
DEFAULT_RULES ==
    << RuleObject("DailyOnCallCoverageRule", 1),
       RuleObject("MinimumOnCallPerWeekRule", 2),
       RuleObject("WeekendRestAfterOnCallRule", 3),
       RuleObject("RestAfterOnCallRule", 4),
       RuleObject("ThursdayOnCallExtendedRestRule", 5),
       RuleObject("NoConsecutiveWeekdayRule", 6) >>

\* ------------------------------------------------------------ rule catalog
\* A variant of the insertion that puts a rule before the rules of its own
\* priority, as a sort by ascending priority that is reversed afterwards does.
InsertByPriority_BeforeEqual(sorted, r) ==
    LET k == Cardinality({i \in 1..Len(sorted) : sorted[i].priority > r.priority})
    IN  SubSeq(sorted, 1, k) \o <<r>> \o SubSeq(sorted, k + 1, Len(sorted))

\* One step of a stable sort by descending priority: r goes behind every rule
\* of a priority greater than or equal to its own.
InsertByPriority(sorted, r) ==
    LET k == Cardinality({i \in 1..Len(sorted) : sorted[i].priority >= r.priority})
    IN  SubSeq(sorted, 1, k) \o <<r>> \o SubSeq(sorted, k + 1, Len(sorted))

\* list.sort(key=lambda r: r.get_priority(), reverse=True): a stable sort, so
\* rules of equal priority keep the order they have in the list.
RECURSIVE SortByPriority(_)
SortByPriority(list) ==
    IF list = <<>> THEN <<>>
    ELSE InsertByPriority(SortByPriority(SubSeq(list, 1, Len(list) - 1)),
                          list[Len(list)])

\* WeekScheduler(employees, rules): "rules or DEFAULT_RULES.copy()", sorted.
\* An empty list counts as no list.
NewCatalog(rules_arg) ==
    SortByPriority(IF rules_arg = <<>> THEN DEFAULT_RULES ELSE rules_arg)

\* add_rule(rule)
AddRuleTo(catalog, rule) == SortByPriority(Append(catalog, rule))

\* remove_rule(rule_name): the first rule of that name is deleted.
RemoveRuleFrom(catalog, rule_name) ==
    LET hits == {i \in 1..Len(catalog) : catalog[i].name = rule_name}
    IN  IF hits = {} THEN catalog
        ELSE LET i == CHOOSE h \in hits : \A g \in hits : h <= g
             IN  SubSeq(catalog, 1, i - 1) \o SubSeq(catalog, i + 1, Len(catalog))

\* rule.validate(employee, day, day_type, week_plan, previous_data)
RuleValidate(rule, e, day, t, plan, pd) ==
    CASE rule.name = "DailyOnCallCoverageRule" ->
             DailyOnCallCoverageRule(e, day, t, plan, pd)
      [] rule.name = "MinimumOnCallPerWeekRule" ->
             MinimumOnCallPerWeekRule(e, day, t, plan, pd)
      [] rule.name = "WeekendRestAfterOnCallRule" ->
             WeekendRestAfterOnCallRule(e, day, t, plan, pd)
      [] rule.name = "RestAfterOnCallRule" ->
             RestAfterOnCallRule(e, day, t, plan, pd)
      [] rule.name = "ThursdayOnCallExtendedRestRule" ->
             ThursdayOnCallExtendedRestRule(e, day, t, plan, pd)
      [] rule.name = "NoConsecutiveWeekdayRule" ->
             NoConsecutiveWeekdayRule(e, day, t, plan, pd)
      [] rule.name = "TwoOnCallPerWeekRule" ->
             TwoOnCallPerWeekRule(e, day, t, plan, pd)
      [] rule.name = "WeekendRestPreferenceRule" ->
             WeekendRestPreferenceRule(e, day, t, plan, pd)
      [] rule.name = "FairRotationRule" ->
             FairRotationRule(e, day, t, plan, pd)

ValidateAssignment(e, day, t, plan, pd) ==
    \A i \in 1..Len(rules) : RuleValidate(rules[i], e, day, t, plan, pd)

\* The loops "for rule in self.rules: if rule.get_priority() >= 88".
ValidateHighPriority(e, day, plan, pd) ==
    \A i \in 1..Len(rules) :
        rules[i].priority >= HighPriority
            => RuleValidate(rules[i], e, day, ON_CALL, plan, pd)

CanAssignForMinimumOncall(e, day, plan, pd) ==
    \A i \in 1..Len(rules) :
        rules[i].priority > MinimumOnCallPriority
            => RuleValidate(rules[i], e, day, ON_CALL, plan, pd)

\* ------------------------------------------------- carryover and rest table
IsMandatoryRest(e, day, pd) ==
    IF pd = <<>> THEN FALSE
    ELSE IF day = 0
         THEN \E d \in {4, 5, 6} : e \in GetOnCallEmployees(pd[1], d)
    ELSE IF day = 1
         THEN \E d \in {5, 6} : e \in GetOnCallEmployees(pd[1], d)
    ELSE FALSE

IsMandatoryWork(e, day, pd) ==
    IF pd = <<>> THEN FALSE
    ELSE IF day = 0 THEN e \in GetOnCallEmployees(pd[1], 3)
    ELSE IF day = 1 THEN e \in GetOnCallEmployees(pd[1], 4)
    ELSE IF day = 2
         THEN \E d \in {5, 6} : e \in GetOnCallEmployees(pd[1], d)
    ELSE FALSE

\* A variant without the work day that follows the rest day of an on-call.
IsMandatoryWorkSameWeek_Never(e, day, plan) == FALSE

IsMandatoryWorkSameWeek(e, day, plan) ==
    IF day \in {2, 3, 4} THEN GetAssignment(plan, day - 2, e) = ON_CALL
    ELSE FALSE

\* _assign_rest_after_oncall without the branch of the Monday on-call.
RestDays_NoMondayBranch(day) ==
    CASE day = 0 -> {}
      [] day \in {1, 2} -> {day + 1}
      [] day = 3 -> {4, 5, 6}
      [] day = 4 -> {5, 6}
      [] day = 5 -> {6}
      [] day = 6 -> {}

\* The days _assign_rest_after_oncall sets to REST for an on-call day.
RestDays(day) ==
    CASE day \in {0, 1, 2} -> {day + 1}
      [] day = 3 -> {4, 5, 6}
      [] day = 4 -> {5, 6}
      [] day = 5 -> {6}
      [] day = 6 -> {}

\* _assign_rest_after_oncall: REST on the days of the week the on-call day earns.
AssignRestAfterOncall(plan, e, day) == SetAssignments(plan, RestDays(day), e, REST)

\* A variant of the undo that clears the ON_CALL cell only.
RemoveOncallAssignment_KeepsRest(plan, e, day) == SetAssignment(plan, day, e, None)

\* The rest days of the on-call day that hold REST are cleared with the cell.
RemoveOncallAssignment(plan, e, day) ==
    LET cleared == SetAssignment(plan, day, e, None)
    IN  SetAssignments(cleared,
                       {r \in RestDays(day) : GetAssignment(cleared, r, e) = REST},
                       e, None)

\* The carryover rest with the Tuesday rest of a weekend on-call left out.
MandatoryRestDays_MondayOnly(e, pd) ==
    IF \E d \in {4, 5, 6} : e \in GetOnCallEmployees(pd[1], d) THEN {0} ELSE {}

\* Monday REST after Friday, Monday and Tuesday REST after Saturday or Sunday.
MandatoryRestDays(e, pd) ==
    (IF e \in GetOnCallEmployees(pd[1], 4) THEN {0} ELSE {})
      \cup (IF \E d \in {5, 6} : e \in GetOnCallEmployees(pd[1], d)
            THEN {0, 1} ELSE {})

AssignMandatoryRest(plan, pd) ==
    IF pd = <<>> THEN plan
    ELSE [d \in Days |->
            [e \in DOMAIN plan[d] |->
                IF d \in MandatoryRestDays(e, pd) THEN REST ELSE plan[d][e]]]

\* --------------------------------------------------------------- the solver
CanAssignOncallCsp(e, day, plan, pd) ==
    /\ GetAssignment(plan, day, e) = None
    /\ GetOnCallEmployees(plan, day) = {}
    /\ ~IsMandatoryWorkSameWeek(e, day, plan)
    /\ ~IsMandatoryWork(e, day, pd)
    /\ ValidateAssignment(e, day, ON_CALL, plan, pd)

\* A variant of the check at the leaf that accepts every complete week.
CheckRule2Satisfied_Always(plan) == TRUE

CheckRule2Satisfied(plan) ==
    \A e \in DOMAIN plan[0] : OnCallCount(plan, e) # 0

\* ------------------------------------------------------ filling the week
\* previous_weeks is what load_previous_weeks(week_plan.week_start, count=1)
\* returns for the store "plan.json": a list with the most recent stored week
\* before week_start, or the empty list.
ShouldAssignRestInsteadOfWork(e, day, plan, previous_weeks) ==
    IF previous_weeks = <<>> THEN FALSE
    ELSE day = 0 /\ e \in GetOnCallEmployees(previous_weeks[1], 4)

\* _fill_remaining_days without the weekend branch.
FillRemainingDays_WeekdaysOnly(plan, previous_weeks) ==
    [d \in Days |->
        [e \in DOMAIN plan[d] |->
            IF plan[d][e] # None \/ d >= 5 THEN plan[d][e]
            ELSE IF ShouldAssignRestInsteadOfWork(e, d, plan, previous_weeks) THEN REST
            ELSE WORK]]

FillRemainingDays(plan, previous_weeks) ==
    [d \in Days |->
        [e \in DOMAIN plan[d] |->
            IF plan[d][e] # None THEN plan[d][e]
            ELSE IF d >= 5 THEN REST
            ELSE IF ShouldAssignRestInsteadOfWork(e, d, plan, previous_weeks) THEN REST
            ELSE WORK]]

\* ---------------------------------------------------------- fairness scores
RECURSIVE SumTo(_, _)
\* f[0] + ... + f[k-1]
SumTo(f, k) == IF k = 0 THEN 0 ELSE f[k - 1] + SumTo(f, k - 1)

Min2(a, b) == IF a < b THEN a ELSE b

Abs(x) == IF x < 0 THEN 0 - x ELSE x

\* historical_count times 10: the weight 1.0 - week_idx * 0.1 is (10 - week_idx) / 10.
HistoricalCount10(e, pd) ==
    LET k == Min2(Len(pd), 8)
    IN  SumTo([i \in 0..7 |->
                 IF i < k THEN OnCallCount(pd[i + 1], e) * (10 - i) ELSE 0], k)

\* _calculate_recent_workload_intensity: weight 2.0 - week_idx over two weeks.
CalculateRecentWorkloadIntensity(e, pd) ==
    LET k == Min2(Len(pd), 2)
    IN  SumTo([i \in 0..1 |->
                 IF i < k THEN OnCallCount(pd[i + 1], e) * (2 - i) ELSE 0], k)

\* composite_score times 100:
\* historical_count * 0.5 + current_week_count * 3.0 + recent_intensity * 0.2
CompositeScore(e, plan, pd) ==
    HistoricalCount10(e, pd) * 5
      + OnCallCount(plan, e) * 300
      + CalculateRecentWorkloadIntensity(e, pd) * 20

CalculateComprehensiveFairnessScores(emps, plan, pd) ==
    [e \in emps |-> CompositeScore(e, plan, pd)]

SetMin(S) == CHOOSE x \in S : \A y \in S : x <= y

SetMax(S) == CHOOSE x \in S : \A y \in S : x >= y

\* emps is not empty; the first name of the sorted best employees.
SelectByFairnessScore(emps, scores) ==
    LET min_score == SetMin({scores[e] : e \in emps})
        best == {e \in emps : scores[e] <= min_score + Tolerance}
    IN  SetMin(best)

\* available is not empty.
ChooseEmployeeForOncall(available, plan, pd, employees_needing_oncall) ==
    IF Cardinality(available) = 1 THEN SetMin(available)
    ELSE LET scores == CalculateComprehensiveFairnessScores(available, plan, pd)
             needing_and_available == available \cap employees_needing_oncall
         IN  IF employees_needing_oncall # {} /\ needing_and_available # {}
             THEN SelectByFairnessScore(needing_and_available, scores)
             ELSE SelectByFairnessScore(available, scores)

\* ------------------------------------------- one day of _assign_on_call_duties
AvailableEmployees(day, plan, pd) ==
    {e \in DOMAIN plan[day] :
        /\ GetAssignment(plan, day, e) = None
        /\ ValidateAssignment(e, day, ON_CALL, plan, pd)}

\* First try of the emergency assignment: free cell, no rule of priority >= 88 broken.
EmergencyCandidates(day, plan, pd) ==
    {e \in DOMAIN plan[day] :
        /\ GetAssignment(plan, day, e) = None
        /\ ValidateHighPriority(e, day, plan, pd)}

\* Last resort of the emergency assignment: any free cell.
LastResortCandidates(day, plan) ==
    {e \in DOMAIN plan[day] : GetAssignment(plan, day, e) = None}

\* The employee who gets ON_CALL on the day, 0 if nobody does, and how.
OnCallChoice(day, plan, pd, employees_needing_oncall) ==
    LET available == AvailableEmployees(day, plan, pd)
        emergency == EmergencyCandidates(day, plan, pd)
        anyone == LastResortCandidates(day, plan)
    IN  IF available # {}
        THEN [emp |-> ChooseEmployeeForOncall(available, plan, pd,
                                              employees_needing_oncall),
              kind |-> "chosen"]
        ELSE IF emergency # {}
        THEN [emp |-> SetMin(emergency), kind |-> "emergency"]
        ELSE IF anyone # {}
        THEN [emp |-> SetMin(anyone), kind |-> "critical"]
        ELSE [emp |-> 0, kind |-> "nobody"]

AssignOnCallWithRest(plan, e, day) ==
    AssignRestAfterOncall(SetAssignment(plan, day, e, ON_CALL), e, day)

\* ------------------------------------------------- minimum on-call repair
\* "for emp in self.employees: if ... == ON_CALL: current = emp; break"
FirstOnCall(plan, day) ==
    IF GetOnCallEmployees(plan, day) = {} THEN 0
    ELSE SetMin(GetOnCallEmployees(plan, day))

\* A variant that counts the day itself too.
OnCallCountExcept_WholeWeek(plan, e, day) == OnCallCount(plan, e)

OnCallCountExcept(plan, e, day) ==
    Cardinality({d \in Days : d # day /\ plan[d][e] = ON_CALL})

\* employees_missing_oncall, as a set; the loops take it in roster order.
EmployeesMissingOncall(plan) ==
    {e \in DOMAIN plan[0] : OnCallCount(plan, e) = 0}

\* A list comprehension over self.employees: the employees of S in roster
\* order.
RECURSIVE InRosterOrder(_)
InRosterOrder(S) ==
    IF S = {} THEN <<>>
    ELSE <<SetMin(S)>> \o InRosterOrder(S \ {SetMin(S)})

\* The missing employee takes the day, the displaced employee gets duty t.
SwapOnCall(plan, missing, current, day, t) ==
    AssignRestAfterOncall(
        SetAssignment(SetAssignment(plan, day, missing, ON_CALL), day, current, t),
        missing, day)

RECURSIVE FindValidOncallSwapFrom(_, _, _, _)
FindValidOncallSwapFrom(missing, plan, pd, target_day) ==
    IF target_day > 6
    THEN [ok |-> FALSE, plan |-> plan, day |-> 0 - 1, current |-> 0, t |-> None]
    ELSE IF ~ValidateAssignment(missing, target_day, ON_CALL, plan, pd)
    THEN FindValidOncallSwapFrom(missing, plan, pd, target_day + 1)
    ELSE LET current_oncall == FirstOnCall(plan, target_day)
             allowed == {t \in {WORK, REST} :
                            ValidateAssignment(current_oncall, target_day, t, plan, pd)}
         IN  IF current_oncall = 0
             THEN [ok |-> TRUE,
                   plan |-> AssignOnCallWithRest(plan, missing, target_day),
                   day |-> target_day, current |-> 0, t |-> None]
             ELSE IF OnCallCountExcept(plan, current_oncall, target_day) = 0
             THEN FindValidOncallSwapFrom(missing, plan, pd, target_day + 1)
             ELSE IF allowed = {}
             THEN FindValidOncallSwapFrom(missing, plan, pd, target_day + 1)
             ELSE [ok |-> TRUE,
                   plan |-> SwapOnCall(plan, missing, current_oncall, target_day,
                                       IF WORK \in allowed THEN WORK ELSE REST),
                   day |-> target_day, current |-> current_oncall,
                   t |-> IF WORK \in allowed THEN WORK ELSE REST]

FindValidOncallSwap(missing, plan, pd) == FindValidOncallSwapFrom(missing, plan, pd, 0)

\* Days counted as available_days in _preemptive_rule2_protection.
PreemptiveAvailableDays(e, plan, pd) ==
    {d \in Days :
        /\ GetAssignment(plan, d, e) = None
        /\ ValidateHighPriority(e, d, plan, pd)
        /\ ~IsMandatoryWork(e, d, pd)}

PreemptiveRestrictedDays(e, plan, pd) ==
    {d \in Days :
        /\ GetAssignment(plan, d, e) = None
        /\ (~ValidateHighPriority(e, d, plan, pd) \/ IsMandatoryWork(e, d, pd))}

\* The day on which the high-risk employee takes over, -1 if there is none.
PreemptiveDay(e, restricted, plan, pd) ==
    LET ds == {d \in Days :
                 /\ GetAssignment(plan, d, e) = None
                 /\ d \notin restricted
                 /\ ValidateAssignment(e, d, ON_CALL, plan, pd)
                 /\ FirstOnCall(plan, d) # 0
                 /\ OnCallCount(plan, FirstOnCall(plan, d)) > 1}
    IN  IF ds = {} THEN 0 - 1 ELSE SetMin(ds)

\* One tuple of high_risk_employees.
HighRisk(e, plan, pd) ==
    [employee |-> e,
     available_days |-> Cardinality(PreemptiveAvailableDays(e, plan, pd)),
     restricted_days |-> PreemptiveRestrictedDays(e, plan, pd)]

\* high_risk_employees.sort(key=lambda x: x[1]): the sort is stable, so that
\* ties stay in roster order.
RECURSIVE SortByAvailableDays(_)
SortByAvailableDays(tuples) ==
    IF tuples = {} THEN <<>>
    ELSE LET first == CHOOSE x \in tuples :
                         \A y \in tuples :
                             \/ x.available_days < y.available_days
                             \/ /\ x.available_days = y.available_days
                                /\ x.employee <= y.employee
         IN  <<first>> \o SortByAvailableDays(tuples \ {first})

\* high_risk_employees of _preemptive_rule2_protection, after the sort.
HighRiskEmployees(plan, pd) ==
    SortByAvailableDays(
        {HighRisk(e, plan, pd) : e \in {x \in DOMAIN plan[0] :
            Cardinality(PreemptiveAvailableDays(x, plan, pd)) <= HighRiskDays}})

\* A variant of the first loop that takes the first day held by an employee
\* with another on-call day, whatever the cell and the rules.
RelaxedDay_FirstHolderWithSpare(m, plan, pd) ==
    LET ds == {d \in Days :
                 /\ FirstOnCall(plan, d) # 0
                 /\ OnCallCount(plan, FirstOnCall(plan, d)) > 1
                 /\ OnCallCountExcept(plan, FirstOnCall(plan, d), d) # 0}
    IN  IF ds = {} THEN 0 - 1 ELSE SetMin(ds)

\* First loop of the enforcement: a free cell of the missing employee on a day
\* nobody holds, or on a day held by an employee with more than one on-call day,
\* that passes the rules of priority >= 88.
RelaxedDay(m, plan, pd) ==
    LET ds == {d \in Days :
                 /\ GetAssignment(plan, d, m) = None
                 /\ CanAssignForMinimumOncall(m, d, plan, pd)
                 /\ ValidateHighPriority(m, d, plan, pd)
                 /\ \/ FirstOnCall(plan, d) = 0
                    \/ /\ OnCallCount(plan, FirstOnCall(plan, d)) > 1
                       /\ OnCallCountExcept(plan, FirstOnCall(plan, d), d) # 0}
    IN  IF ds = {} THEN 0 - 1 ELSE SetMin(ds)

\* Last resort: a day held by an employee with more than one on-call day.
LastResortDay(m, plan, pd) ==
    LET ds == {d \in Days :
                 /\ GetAssignment(plan, d, m) # ON_CALL
                 /\ ~(GetAssignment(plan, d, m) = REST /\ IsMandatoryRest(m, d, pd))
                 /\ ~IsMandatoryWork(m, d, pd)
                 /\ FirstOnCall(plan, d) # 0
                 /\ OnCallCount(plan, FirstOnCall(plan, d)) > 1
                 /\ ValidateAssignment(m, d, ON_CALL, plan, pd)}
    IN  IF ds = {} THEN 0 - 1 ELSE SetMin(ds)

\* The day the enforcement gives to the missing employee, -1 if none.
EnforceDay(m, plan, pd) ==
    IF RelaxedDay(m, plan, pd) >= 0 THEN RelaxedDay(m, plan, pd)
    ELSE LastResortDay(m, plan, pd)

EnforceFor(m, plan, pd) ==
    LET rd == RelaxedDay(m, plan, pd)
        ld == LastResortDay(m, plan, pd)
    IN  IF rd >= 0
        THEN IF FirstOnCall(plan, rd) = 0
             THEN AssignOnCallWithRest(plan, m, rd)
             ELSE SwapOnCall(plan, m, FirstOnCall(plan, rd), rd, WORK)
        ELSE IF ld >= 0
        THEN SwapOnCall(plan, m, FirstOnCall(plan, ld), ld, WORK)
        ELSE plan

\* ------------------------------------------------------- fairness optimizer
\* "for emp in self.employees: if ... == ON_CALL: emp1_oncall = emp" (no break)
LastOnCall(plan, day) ==
    IF GetOnCallEmployees(plan, day) = {} THEN 0
    ELSE SetMax(GetOnCallEmployees(plan, day))

\* A variant of the simulated swap that gives both days to emp2 and clears
\* neither cell of emp1.
SimulateSwap_OneWay(plan, emp1, emp2, day1, day2) ==
    SetAssignment(SetAssignment(plan, day1, emp2, ON_CALL), day2, emp2, ON_CALL)

\* "Simulate the swap" of _would_swap_improve_fairness, also the first four
\* writes of _perform_oncall_swap.
SimulateSwap(plan, emp1, emp2, day1, day2) ==
    SetAssignment(
        SetAssignment(
            SetAssignment(SetAssignment(plan, day1, emp1, None), day2, emp2, None),
            day1, emp2, ON_CALL),
        day2, emp1, ON_CALL)

\* A variant that finds every swap an improvement.
WouldSwapImproveFairness_Always(emp1, emp2, day1, day2, plan, pd) == TRUE

WouldSwapImproveFairness(emp1, emp2, day1, day2, plan, pd) ==
    LET temp == SimulateSwap(plan, emp1, emp2, day1, day2)
        current_gap == Abs(CompositeScore(emp1, plan, pd) - CompositeScore(emp2, plan, pd))
        new_gap == Abs(CompositeScore(emp1, temp, pd) - CompositeScore(emp2, temp, pd))
    IN  new_gap < current_gap - SwapGain

CanSwapSafely(emp1, emp2, day1, day2, plan, pd) ==
    /\ ValidateAssignment(emp2, day1, ON_CALL, plan, pd)
    /\ ValidateAssignment(emp1, day2, ON_CALL, plan, pd)

PerformOncallSwap(emp1, emp2, day1, day2, plan) ==
    AssignRestAfterOncall(
        AssignRestAfterOncall(SimulateSwap(plan, emp1, emp2, day1, day2), emp2, day1),
        emp1, day2)

\* The pairs (day1, day2) the optimizer would swap, as day1 * 7 + day2.
SwapPairs(plan, pd) ==
    {k \in 0..48 :
        LET day1 == k \div 7
            day2 == k % 7
            emp1 == LastOnCall(plan, day1)
            emp2 == LastOnCall(plan, day2)
        IN  /\ day1 # day2
            /\ emp1 # 0 /\ emp2 # 0 /\ emp1 # emp2
            /\ WouldSwapImproveFairness(emp1, emp2, day1, day2, plan, pd)
            /\ CanSwapSafely(emp1, emp2, day1, day2, plan, pd)}

RECURSIVE OptimizeFairnessLoop(_, _, _)
OptimizeFairnessLoop(plan, pd, iteration) ==
    IF iteration >= MaxImprovements \/ SwapPairs(plan, pd) = {} THEN plan
    ELSE LET k == SetMin(SwapPairs(plan, pd))
             day1 == k \div 7
             day2 == k % 7
         IN  OptimizeFairnessLoop(
                 PerformOncallSwap(LastOnCall(plan, day1), LastOnCall(plan, day2),
                                   day1, day2, plan),
                 pd, iteration + 1)

OptimizeFairnessPostAssignment(plan, pd) ==
    IF pd = <<>> THEN plan ELSE OptimizeFairnessLoop(plan, pd, 0)

\* ------------------------------------------------------------------ inputs
\* Who is on call on each day of a previous week: one employee per day.
\* A pattern follows the rest table when nobody is on call again inside the
\* rest window of an on-call day, nor on the work day that follows the rest
\* day of a Monday, Tuesday or Wednesday on-call.
FollowsRestTable(oc) ==
    /\ \A d \in Days : \A r \in RestDays(d) : oc[r] # oc[d]
    /\ \A d \in {0, 1, 2} : oc[d + 2] # oc[d]

\* One employee on call all week: the history that blocks every day of an
\* employee by the same-weekday rule.
SameEmployeeAllWeek(oc) == \A d \in Days : oc[d] = oc[0]

\* One employee on call on Saturday and on Sunday, the days before that as
\* the rest table allows.
SameEmployeeAllWeekend(oc) ==
    /\ oc[5] = oc[6]
    /\ \A d \in 0..4 : \A r \in RestDays(d) : oc[r] # oc[d]
    /\ \A d \in {0, 1, 2} : oc[d + 2] # oc[d]

HistoryPatterns(k) ==
    {oc \in [Days -> 1..k] :
        FollowsRestTable(oc) \/ SameEmployeeAllWeek(oc) \/ SameEmployeeAllWeekend(oc)}

\* The stored week of a pattern: ON_CALL as the pattern says, REST in the rest
\* windows and on the weekend, WORK elsewhere.
HistoryWeek(oc, k) ==
    [d \in Days |->
        [e \in 1..k |->
            IF oc[d] = e THEN ON_CALL
            ELSE IF \E d0 \in Days : oc[d0] = e /\ d \in RestDays(d0) THEN REST
            ELSE IF d >= 5 THEN REST
            ELSE WORK]]

\* A stored week in which employee f, and nobody else, is on call on Friday.
FridayWeek(f, k) ==
    [d \in Days |->
        [e \in 1..k |->
            IF d = 4 /\ e = f THEN ON_CALL
            ELSE IF d >= 5 THEN REST
            ELSE WORK]]

Take(s, k) == IF Len(s) <= k THEN s ELSE SubSeq(s, 1, k)

\* ------------------------------------------------------------------ storage
\* date.isoformat(): a text of fixed width, modelled by the two decimal digits
\* of the day number, so that texts compare as the dates do.
IsoFormat(d) == <<d \div 10, d % 10>>

\* date.fromisoformat()
FromIsoFormat(text) == 10 * text[1] + text[2]

\* text1 < text2 for two texts of isoformat
IsoLess(text1, text2) ==
    \/ text1[1] < text2[1]
    \/ text1[1] = text2[1] /\ text1[2] < text2[2]

\* DayType.value, spelled in Latin letters.
DayTypeValue == [WORK |-> "bai", ON_CALL |-> "ting", REST |-> "xiu"]

\* DayType(value)
DayTypeOf(value) == CHOOSE t \in DayType : DayTypeValue[t] = value

\* int(day_str)
ParseDay(day_str) == CHOOSE d \in Days : ToString(d) = day_str

\* A WeekPlan object.
WeekPlanOf(ws, assignments, meta) ==
    [week_start |-> ws, assignments |-> assignments, metadata |-> meta]

\* WeekPlan.to_dict(): the days become texts, the day types their values.
ToDict(plan) ==
    [week_start |-> IsoFormat(plan.week_start),
     assignments |->
        [day_str \in {ToString(d) : d \in DOMAIN plan.assignments} |->
            LET day == CHOOSE d \in DOMAIN plan.assignments : ToString(d) = day_str
            IN  [e \in DOMAIN plan.assignments[day] |->
                    DayTypeValue[plan.assignments[day][e]]]],
     metadata |-> plan.metadata]

\* WeekPlan.from_dict(data)
FromDict(data) ==
    [week_start |-> FromIsoFormat(data.week_start),
     assignments |->
        [day \in {ParseDay(day_str) : day_str \in DOMAIN data.assignments} |->
            LET day_str == CHOOSE k \in DOMAIN data.assignments : ParseDay(k) = day
            IN  [e \in DOMAIN data.assignments[day_str] |->
                    DayTypeOf(data.assignments[day_str][e])]],
     metadata |-> data.metadata]

\* One step of the stable sort of data["weeks"] by week_start, ascending.
InsertByWeekStart(sorted, w) ==
    LET k == Cardinality({i \in 1..Len(sorted) :
                             ~IsoLess(w.week_start, sorted[i].week_start)})
    IN  SubSeq(sorted, 1, k) \o <<w>> \o SubSeq(sorted, k + 1, Len(sorted))

\* data["weeks"].sort(key=lambda w: w["week_start"])
RECURSIVE SortByWeekStart(_)
SortByWeekStart(weeks) ==
    IF weeks = <<>> THEN <<>>
    ELSE InsertByWeekStart(SortByWeekStart(SubSeq(weeks, 1, Len(weeks) - 1)),
                           weeks[Len(weeks)])

\* [w for w in data["weeks"] if w["week_start"] != week_start_str]
RECURSIVE WithoutWeekStart(_, _)
WithoutWeekStart(weeks, week_start_str) ==
    IF weeks = <<>> THEN <<>>
    ELSE (IF Head(weeks).week_start # week_start_str THEN <<Head(weeks)>> ELSE <<>>)
            \o WithoutWeekStart(Tail(weeks), week_start_str)

\* A variant of save_week that keeps the plan already stored for the week.
SaveWeekTo_KeepsOld(weeks, plan) == SortByWeekStart(Append(weeks, ToDict(plan)))

\* save_week(week_plan): the contents of the file after the call.
SaveWeekTo(weeks, plan) ==
    SortByWeekStart(
        Append(WithoutWeekStart(weeks, IsoFormat(plan.week_start)), ToDict(plan)))

RECURSIVE LoadWeekFrom(_, _)
\* A variant of load_week that never finds the week.
LoadWeekFrom_NotFound(weeks, ws) == <<>>

\* load_week(week_start): <<>> for None, <<plan>> for a plan.
LoadWeekFrom(weeks, ws) ==
    IF weeks = <<>> THEN <<>>
    ELSE IF Head(weeks).week_start = IsoFormat(ws) THEN <<FromDict(Head(weeks))>>
    ELSE LoadWeekFrom(Tail(weeks), ws)

\* delete_week(week_start): the contents of the file after the call.
DeleteWeekFrom(weeks, ws) == WithoutWeekStart(weeks, IsoFormat(ws))

\* The loop of load_previous_weeks: the plans of the file, in the order of the
\* file, whose week_start is before from_date.
RECURSIVE WeeksBefore(_, _)
WeeksBefore(weeks, from_date) ==
    IF weeks = <<>> THEN <<>>
    ELSE (IF FromIsoFormat(Head(weeks).week_start) < from_date
          THEN <<FromDict(Head(weeks))>> ELSE <<>>)
            \o WeeksBefore(Tail(weeks), from_date)

\* One step of the stable sort of the plans by week_start, descending.
InsertByWeekStartReverse(sorted, w) ==
    LET k == Cardinality({i \in 1..Len(sorted) : sorted[i].week_start >= w.week_start})
    IN  SubSeq(sorted, 1, k) \o <<w>> \o SubSeq(sorted, k + 1, Len(sorted))

\* weeks.sort(key=lambda w: w.week_start, reverse=True)
RECURSIVE SortByWeekStartReverse(_)
SortByWeekStartReverse(plans) ==
    IF plans = <<>> THEN <<>>
    ELSE InsertByWeekStartReverse(
             SortByWeekStartReverse(SubSeq(plans, 1, Len(plans) - 1)),
             plans[Len(plans)])

\* A variant of load_previous_weeks that also returns the week of from_date.
LoadPreviousWeeksFrom_NotStrict(weeks, from_date, count) ==
    Take(SortByWeekStartReverse(WeeksBefore(weeks, from_date + 1)), count)

\* load_previous_weeks(from_date, count), for a count of 0 or more
LoadPreviousWeeksFrom(weeks, from_date, count) ==
    Take(SortByWeekStartReverse(WeeksBefore(weeks, from_date)), count)

\* The grids of a list of WeekPlan objects.
Assignments(plans) == [i \in 1..Len(plans) |-> plans[i].assignments]

\* What load_previous_weeks(week_start, count=1) returns for "plan.json" in
\* _should_assign_rest_instead_of_work.  When generate_week is called on its
\* own the file is any file: it holds nothing, the week the caller passed as
\* previous_data[0], or another week.  When the month generator calls it, the
\* file is the storage file of the generator.
StoreReads ==
    IF month = 0
    THEN {<<>>} \cup (IF prev = <<>> THEN {} ELSE {<<prev[1]>>})
                \cup {<<FridayWeek(f, n)>> : f \in Emps}
    ELSE {Assignments(LoadPreviousWeeksFrom(store, week_start, 1))}

\* The Mondays that plans are saved for, as day numbers.
StoreDates == {7 * k : k \in 0..(MaxStoredWeeks - 1)}

\* The plans that are saved: weeks of rosters of two or three employees.
StoredPlans ==
    {WeekPlanOf(ws, FridayWeek(f, k), {"generated_at", "rules_applied"}) :
        ws \in StoreDates, f \in 1..2, k \in 2..3}

\* ---------------------------------------------------------- state machine
\* The state in which generate_week(week_start, previous_data) is called on
\* WeekScheduler(employees, rules) for a roster of k employees.
CallOf(k, rules_arg, previous_data, ws, left) ==
    /\ n = k
    /\ prev = previous_data
    /\ week_start = ws
    /\ weeksLeft = left
    /\ week = EmptyWeek(k)
    /\ metadata = {"generated_at", "rules_applied"}
    /\ pc = "start"
    /\ stack = <<>>
    /\ cand = 1
    /\ fbDay = 0
    /\ needing = {}
    /\ intelOk = TRUE
    /\ pending = <<>>
    /\ swap = <<>>
    /\ improvements_made = 0
    /\ cspOk = FALSE
    /\ log = {}
    /\ rules = NewCatalog(rules_arg)
    /\ store = <<>>
    /\ lastSaved = {}
    /\ month = 0
    /\ current_monday = 0
    /\ month_weeks = <<>>
    /\ module_rules = DEFAULT_RULES
    /\ schedulers = <<>>

\* Calls with valid input: a roster of 1..MaxEmp employees, a Monday, and
\* the default rules,
\* and either no history (the first of MaxWeeks weeks) or one previous week.
Init ==
    \E k \in 1..MaxEmp :
        \/ CallOf(k, <<>>, <<>>, 0, MaxWeeks - 1)
        \/ \E oc \in HistoryPatterns(k) : CallOf(k, <<>>, <<HistoryWeek(oc, k)>>, 0, 0)

\* The smallest roster with more employees than the week has days.
LargeRoster == Cardinality(Days) + 1

\* A previous week of three blocks: the first employee on call from Monday to
\* Wednesday, the second from Thursday to Saturday, the third on Sunday.
ThreeBlocks == [d \in Days |-> IF d <= 2 THEN 1 ELSE IF d <= 5 THEN 2 ELSE 3]

\* Calls whose history makes composite scores that differ by a tenth: the
\* calls of Init, and for a roster of three a history of two weeks, any recent
\* week before a week of three blocks.
ScoreInit ==
    \/ Init
    \/ \E oc \in [Days -> 1..3] :
          CallOf(3, <<>>, <<HistoryWeek(oc, 3), HistoryWeek(ThreeBlocks, 3)>>, 0, 0)

\* Calls with any input: also the empty roster, a week_start on any day of
\* the week, and a roster too large for every employee to get an ON_CALL day.
\* The previous weeks are those the calls themselves return and those that
\* block an employee on every day.
AnyInputInit ==
    \/ \E k \in 0..MaxEmp : \E ws \in Days : CallOf(k, <<>>, <<>>, ws, MaxWeeks - 1)
    \/ \E k \in 1..MaxEmp : \E oc \in {p \in [Days -> 1..k] : SameEmployeeAllWeek(p)} :
          CallOf(k, <<>>, <<HistoryWeek(oc, k)>>, 0, 0)
    \/ CallOf(LargeRoster, <<>>, <<>>, 0, 0)

\* A variant of the solver whose loop of Monday starts with the second
\* employee of the roster.
GenerateWithCsp_FromSecond ==
    /\ pc = "start"
    /\ week' = AssignMandatoryRest(EmptyWeek(n), prev)
    /\ metadata' = {"generated_at", "rules_applied"}
    /\ pc' = "backtrack"
    /\ stack' = <<>>
    /\ cand' = Min2(2, n)
    /\ UNCHANGED <<untouched, swap, improvements_made, pending, prev, fbDay, needing, intelOk, cspOk, log, weeksLeft>>

\* generate_week up to the first call of _backtrack_oncall_assignment:
\* the plan is created, every cell is reset and the carryover rest is written.
GenerateWithCsp ==
    /\ pc = "start"
    /\ week' = AssignMandatoryRest(EmptyWeek(n), prev)
    /\ metadata' = {"generated_at", "rules_applied"}
    /\ pc' = "backtrack"
    /\ stack' = <<>>
    /\ cand' = 1
    /\ UNCHANGED <<untouched, swap, improvements_made, pending, prev, fbDay, needing, intelOk, cspOk, log, weeksLeft>>

\* The frame of day Len(stack) returns False to its caller, which removes the
\* assignment it made and goes on with its next employee.
\* A variant of the return that leaves the loop of the caller at the employee
\* it has just tried.
ReturnFalse_SameCandidate ==
    IF stack = <<>>
    THEN /\ pc' = "mandatory_rest"
         /\ cspOk' = FALSE
         /\ UNCHANGED <<week, stack, cand>>
    ELSE /\ week' = RemoveOncallAssignment(week, stack[Len(stack)], Len(stack) - 1)
         /\ cand' = stack[Len(stack)]
         /\ stack' = SubSeq(stack, 1, Len(stack) - 1)
         /\ UNCHANGED <<pc, cspOk>>

ReturnFalse ==
    IF stack = <<>>
    THEN /\ pc' = "mandatory_rest"
         /\ cspOk' = FALSE
         /\ UNCHANGED <<week, stack, cand>>
    ELSE /\ week' = RemoveOncallAssignment(week, stack[Len(stack)], Len(stack) - 1)
         /\ cand' = stack[Len(stack)] + 1
         /\ stack' = SubSeq(stack, 1, Len(stack) - 1)
         /\ UNCHANGED <<pc, cspOk>>

\* A variant of the iteration that, after an employee who cannot be assigned,
\* goes on with the employee after the next one.
BacktrackTry_SkipsAfterReject ==
    /\ pc = "backtrack"
    /\ Len(stack) < 7
    /\ cand <= n
    /\ IF CanAssignOncallCsp(cand, Len(stack), week, prev)
       THEN /\ week' = AssignOnCallWithRest(week, cand, Len(stack))
            /\ stack' = Append(stack, cand)
            /\ cand' = 1
       ELSE /\ cand' = Min2(cand + 2, n + 1)
            /\ UNCHANGED <<week, stack>>
    /\ UNCHANGED <<untouched, swap, improvements_made, pending, prev, metadata, pc, fbDay, needing, intelOk, cspOk, log, weeksLeft>>

\* One iteration of "for employee in self.employees" of the innermost frame.
BacktrackTry ==
    /\ pc = "backtrack"
    /\ Len(stack) < 7
    /\ cand <= n
    /\ IF CanAssignOncallCsp(cand, Len(stack), week, prev)
       THEN /\ week' = AssignOnCallWithRest(week, cand, Len(stack))
            /\ stack' = Append(stack, cand)
            /\ cand' = 1
       ELSE /\ cand' = cand + 1
            /\ UNCHANGED <<week, stack>>
    /\ UNCHANGED <<untouched, swap, improvements_made, pending, prev, metadata, pc, fbDay, needing, intelOk, cspOk, log, weeksLeft>>

\* The loop of the innermost frame is over: "return False".
BacktrackExhausted ==
    /\ pc = "backtrack"
    /\ Len(stack) < 7
    /\ cand > n
    /\ ReturnFalse
    /\ UNCHANGED <<untouched, swap, improvements_made, pending, prev, metadata, fbDay, needing, intelOk, log, weeksLeft>>

\* day >= 7: the frame returns _check_rule2_satisfied.
BacktrackLeaf ==
    /\ pc = "backtrack"
    /\ Len(stack) = 7
    /\ IF CheckRule2Satisfied(week)
       THEN /\ pc' = "fill"
            /\ cspOk' = TRUE
            /\ UNCHANGED <<week, stack, cand>>
       ELSE ReturnFalse
    /\ UNCHANGED <<untouched, swap, improvements_made, pending, prev, metadata, fbDay, needing, intelOk, log, weeksLeft>>

\* A variant of phase 1 that writes the carryover rest into the most recent
\* week of previous_data instead of the week that is being planned.
AssignMandatoryRestPhase_IntoLastWeek ==
    /\ pc = "mandatory_rest"
    /\ prev' = IF prev = <<>> THEN prev
               ELSE <<AssignMandatoryRest(prev[1], prev)>> \o Tail(prev)
    /\ pc' = "on_call"
    /\ fbDay' = 0
    /\ needing' = Emps
    /\ UNCHANGED <<untouched, swap, improvements_made, pending, week, metadata, stack, cand, intelOk, cspOk, log, weeksLeft>>

\* Phase 1 of the fallback.
AssignMandatoryRestPhase ==
    /\ pc = "mandatory_rest"
    /\ week' = AssignMandatoryRest(week, prev)
    /\ pc' = "on_call"
    /\ fbDay' = 0
    /\ needing' = Emps
    /\ UNCHANGED <<untouched, swap, improvements_made, pending, prev, metadata, stack, cand, intelOk, cspOk, log, weeksLeft>>

\* Phase 2 of the fallback: one day of the loop of _assign_on_call_duties.
AssignOnCallDuties ==
    /\ pc = "on_call"
    /\ LET c == OnCallChoice(fbDay, week, prev, needing)
       IN  /\ week' = IF c.emp = 0 THEN week
                      ELSE AssignOnCallWithRest(week, c.emp, fbDay)
           /\ needing' = IF c.kind = "chosen" THEN needing \ {c.emp} ELSE needing
           /\ log' = IF c.kind \in {"emergency", "critical"}
                     THEN log \cup {[kind |-> c.kind, emp |-> c.emp, day |-> fbDay]}
                     ELSE log
    /\ IF fbDay = 6
       THEN pc' = "intelligent" /\ fbDay' = 0
       ELSE pc' = pc /\ fbDay' = fbDay + 1
    /\ UNCHANGED <<untouched, swap, improvements_made, pending, prev, metadata, stack, cand, intelOk, cspOk, weeksLeft>>

\* Phase 2.5, first line: _intelligent_rule2_compliance up to its loop.
IntelligentRule2 ==
    /\ pc = "intelligent"
    /\ LET employees_missing_oncall == InRosterOrder(EmployeesMissingOncall(week))
       IN  /\ pending' = employees_missing_oncall
           /\ pc' = IF employees_missing_oncall = <<>> THEN "enforce"
                    ELSE "intelligent_loop"
    /\ intelOk' = TRUE
    /\ UNCHANGED <<untouched, swap, improvements_made, prev, week, metadata, stack, cand, fbDay, needing, cspOk, log,
                   weeksLeft>>

\* A variant of the iteration whose swap writes the duty of the displaced
\* employee first.
IntelligentSwap_HolderFirst ==
    /\ pc = "intelligent_loop"
    /\ swap = <<>>
    /\ LET r == FindValidOncallSwap(Head(pending), week, prev)
       IN  IF r.ok /\ r.current # 0
           THEN /\ week' = SetAssignment(week, r.day, r.current, r.t)
                /\ swap' = [day |-> r.day, missing |-> Head(pending),
                            current |-> r.current, t |-> r.t]
                /\ UNCHANGED <<pc, pending, intelOk>>
           ELSE /\ week' = r.plan
                /\ intelOk' = r.ok
                /\ pending' = IF r.ok THEN Tail(pending) ELSE <<>>
                /\ pc' = IF ~r.ok THEN "preemptive"
                         ELSE IF Tail(pending) = <<>> THEN "enforce"
                         ELSE pc
                /\ swap' = swap
    /\ UNCHANGED <<untouched, improvements_made, prev, metadata, stack, cand, fbDay, needing,
                   cspOk, log, weeksLeft>>

\* One iteration of the loop of _intelligent_rule2_compliance: a swap for a
\* missing employee, and the return when it fails or the loop is over.
IntelligentSwap ==
    /\ pc = "intelligent_loop"
    /\ swap = <<>>
    /\ LET r == FindValidOncallSwap(Head(pending), week, prev)
       IN  IF r.ok /\ r.current # 0
           THEN /\ week' = SetAssignment(week, r.day, Head(pending), ON_CALL)
                /\ swap' = [day |-> r.day, missing |-> Head(pending),
                            current |-> r.current, t |-> r.t]
                /\ UNCHANGED <<pc, pending, intelOk>>
           ELSE /\ week' = r.plan
                /\ intelOk' = r.ok
                /\ pending' = IF r.ok THEN Tail(pending) ELSE <<>>
                /\ pc' = IF ~r.ok THEN "preemptive"
                         ELSE IF Tail(pending) = <<>> THEN "enforce"
                         ELSE pc
                /\ swap' = swap
    /\ UNCHANGED <<untouched, improvements_made, prev, metadata, stack, cand, fbDay, needing,
                   cspOk, log, weeksLeft>>


\* Phase 2.5, when the intelligent redistribution failed:
\* _preemptive_rule2_protection up to its second loop.
PreemptiveRule2 ==
    /\ pc = "preemptive"
    /\ LET high_risk_employees == IF prev = <<>> THEN <<>>
                                  ELSE HighRiskEmployees(week, prev)
       IN  /\ pending' = high_risk_employees
           /\ pc' = IF high_risk_employees = <<>> THEN "enforce" ELSE "preemptive_loop"
    /\ UNCHANGED <<untouched, swap, improvements_made, prev, week, metadata, stack, cand, fbDay, needing, intelOk,
                   cspOk, log, weeksLeft>>

\* One iteration of the second loop of _preemptive_rule2_protection: a slot
\* is reserved for a high-risk employee, or none is found.
PreemptiveReserve ==
    /\ pc = "preemptive_loop"
    /\ swap = <<>>
    /\ LET h == Head(pending)
           day == PreemptiveDay(h.employee, h.restricted_days, week, prev)
       IN  IF h.available_days = 0 \/ day < 0
           THEN /\ pending' = Tail(pending)
                /\ pc' = IF Tail(pending) = <<>> THEN "enforce" ELSE pc
                /\ UNCHANGED <<week, swap>>
           ELSE /\ week' = SetAssignment(week, day, h.employee, ON_CALL)
                /\ swap' = [day |-> day, missing |-> h.employee,
                            current |-> FirstOnCall(week, day), t |-> WORK]
                /\ UNCHANGED <<pc, pending>>
    /\ UNCHANGED <<untouched, improvements_made, prev, metadata, stack, cand, fbDay, needing,
                   intelOk, cspOk, log, weeksLeft>>


\* Phase 2.5, the rest of _ensure_minimum_oncall_per_week up to its loop.
EnsureMinimumOncall ==
    /\ pc = "enforce"
    /\ LET employees_missing_oncall == InRosterOrder(EmployeesMissingOncall(week))
       IN  /\ pending' = employees_missing_oncall
           /\ pc' = IF employees_missing_oncall = <<>> THEN "fill" ELSE "enforce_loop"
    /\ UNCHANGED <<untouched, swap, improvements_made, prev, week, metadata, stack, cand, fbDay, needing, intelOk,
                   cspOk, log, weeksLeft>>

\* One iteration of the loop of _ensure_minimum_oncall_per_week: the relaxed
\* swap for a missing employee, and the last resort when it finds no day.
EnforceMissing ==
    /\ pc = "enforce_loop"
    /\ swap = <<>>
    /\ LET day == EnforceDay(Head(pending), week, prev)
       IN  IF day >= 0 /\ FirstOnCall(week, day) # 0
           THEN /\ week' = SetAssignment(week, day, Head(pending), ON_CALL)
                /\ swap' = [day |-> day, missing |-> Head(pending),
                            current |-> FirstOnCall(week, day), t |-> WORK]
                /\ UNCHANGED <<pc, pending>>
           ELSE /\ week' = EnforceFor(Head(pending), week, prev)
                /\ pending' = Tail(pending)
                /\ pc' = IF Tail(pending) = <<>> THEN "fill" ELSE pc
                /\ swap' = swap
    /\ UNCHANGED <<untouched, improvements_made, prev, metadata, stack, cand, fbDay, needing,
                   intelOk, cspOk, log, weeksLeft>>

\* A variant of the second write that leaves the cell of the employee who
\* held the day as it is.
CompleteSwap_KeepsHolder ==
    /\ pc \in {"intelligent_loop", "preemptive_loop", "enforce_loop"}
    /\ swap # <<>>
    /\ week' = AssignRestAfterOncall(week, swap.missing, swap.day)
    /\ swap' = <<>>
    /\ pending' = Tail(pending)
    /\ pc' = IF Tail(pending) # <<>> THEN pc
             ELSE IF pc = "enforce_loop" THEN "fill" ELSE "enforce"
    /\ UNCHANGED <<untouched, improvements_made, prev, metadata, stack, cand, fbDay, needing,
                   intelOk, cspOk, log, weeksLeft>>

\* The second write of a swap of the repair and what follows it: the employee
\* who held the day gets the new duty, the rest window of the employee who
\* took it is written, and the loop goes on to its next employee.
CompleteSwap ==
    /\ pc \in {"intelligent_loop", "preemptive_loop", "enforce_loop"}
    /\ swap # <<>>
    /\ week' = AssignRestAfterOncall(
                   SetAssignment(week, swap.day, swap.current, swap.t),
                   swap.missing, swap.day)
    /\ swap' = <<>>
    /\ pending' = Tail(pending)
    /\ pc' = IF Tail(pending) # <<>> THEN pc
             ELSE IF pc = "enforce_loop" THEN "fill" ELSE "enforce"
    /\ UNCHANGED <<untouched, improvements_made, prev, metadata, stack, cand, fbDay, needing,
                   intelOk, cspOk, log, weeksLeft>>


\* _fill_remaining_days, called by _generate_with_csp or as phase 3 of the
\* fallback; it reads the store.
FillRemaining ==
    /\ pc = "fill"
    /\ \E previous_weeks \in StoreReads :
          week' = FillRemainingDays(week, previous_weeks)
    /\ pc' = IF cspOk THEN "done" ELSE "fairness"
    /\ UNCHANGED <<untouched, swap, improvements_made, pending, prev, metadata, stack, cand, fbDay, needing, intelOk, cspOk,
                   log, weeksLeft>>

\* Phase 4 of the fallback, then "return week_plan".
OptimizeFairness ==
    /\ pc = "fairness"
    /\ pc' = IF prev = <<>> THEN "done" ELSE "fairness_loop"
    /\ improvements_made' = 0
    /\ UNCHANGED <<untouched, swap, pending, prev, week, metadata, stack, cand, fbDay, needing,
                   intelOk, cspOk, log, weeksLeft>>

\* One iteration of the loop "for iteration in range(max_improvements)": the
\* first pair of days that passes both tests is swapped, or the loop ends.
FairnessIteration ==
    /\ pc = "fairness_loop"
    /\ LET pairs == SwapPairs(week, prev)
           k == SetMin(pairs)
           day1 == k \div 7
           day2 == k % 7
       IN  IF pairs = {}
           THEN /\ pc' = "done"
                /\ UNCHANGED <<week, improvements_made>>
           ELSE /\ week' = PerformOncallSwap(LastOnCall(week, day1), LastOnCall(week, day2),
                                             day1, day2, week)
                /\ improvements_made' = improvements_made + 1
                /\ pc' = IF improvements_made + 1 >= MaxImprovements THEN "done" ELSE pc
    /\ UNCHANGED <<untouched, swap, pending, prev, metadata, stack, cand, fbDay, needing,
                   intelOk, cspOk, log, weeksLeft>>


\* The caller stores the returned week and asks for the week after it with
\* the stored weeks as previous_data (_get_or_generate_month_weeks).
NextWeek ==
    /\ pc = "done"
    /\ weeksLeft > 0
    /\ prev' = Take(<<week>> \o prev, HistoryCount)
    /\ weeksLeft' = weeksLeft - 1
    /\ week' = EmptyWeek(n)
    /\ pc' = "start"
    /\ stack' = <<>>
    /\ cand' = 1
    /\ fbDay' = 0
    /\ needing' = {}
    /\ intelOk' = TRUE
    /\ pending' = <<>>
    /\ swap' = <<>>
    /\ improvements_made' = 0
    /\ cspOk' = FALSE
    /\ log' = {}
    /\ week_start' = week_start + 7
    /\ UNCHANGED <<n, metadata, rules, store, lastSaved, month, current_monday, month_weeks,
                   module_rules, schedulers>>

Next ==
    \/ GenerateWithCsp
    \/ BacktrackTry
    \/ BacktrackExhausted
    \/ BacktrackLeaf
    \/ AssignMandatoryRestPhase
    \/ AssignOnCallDuties
    \/ IntelligentRule2
    \/ IntelligentSwap
    \/ PreemptiveRule2
    \/ PreemptiveReserve
    \/ EnsureMinimumOncall
    \/ EnforceMissing
    \/ CompleteSwap
    \/ FillRemaining
    \/ OptimizeFairness
    \/ FairnessIteration
    \/ NextWeek

Spec == Init /\ [][Next]_vars

\* One employee on call from Monday to Wednesday and one from Thursday to
\* Sunday: the histories after which the fallback leaves an employee without
\* an ON_CALL day and the repair has to act.
TwoBlocks(oc) ==
    /\ oc[0] = oc[1] /\ oc[1] = oc[2]
    /\ oc[3] = oc[4] /\ oc[4] = oc[5] /\ oc[5] = oc[6]

\* Calls that exercise the repair of the fallback, for rosters up to one
\* employee more than MaxEmp: the first of MaxWeeks weeks without history, or
\* one previous week of two blocks.
RepairInit ==
    \E k \in 1..(MaxEmp + 1) :
        \/ CallOf(k, <<>>, <<>>, 0, MaxWeeks - 1)
        \/ \E oc \in {p \in [Days -> 1..k] : TwoBlocks(p)} :
              CallOf(k, <<>>, <<HistoryWeek(oc, k)>>, 0, 0)

RepairSpec == RepairInit /\ [][Next]_vars

ScoreSpec == ScoreInit /\ [][Next]_vars

\* generate_week runs to its end once called: each of its steps is taken
\* when it is enabled.
AnyInputSpec == AnyInputInit /\ [][Next]_vars /\ WF_vars(Next)

\* ------------------------------------------------- operations on the catalog
\* What add_rule and remove_rule and the operations of PlanStorage leave alone.
scheduling == <<n, prev, week, metadata, pc, stack, cand, fbDay, needing, intelOk, pending,
                swap, improvements_made,
                cspOk, log, weeksLeft, week_start, month, current_monday, month_weeks,
                module_rules, schedulers>>

\* The classes whose objects are handed to the constructor and to add_rule:
\* one of a priority below the default rules, the lowest one, and two that tie
\* with a default rule.
GivenRules ==
    {"TwoOnCallPerWeekRule", "WeekendRestPreferenceRule",
     "RestAfterOnCallRule", "NoConsecutiveWeekdayRule"}

\* The lists passed as rules to the constructor: none, or one or two objects
\* in either order.
ConstructorLists ==
    {<<>>} \cup {<<RuleObject(c, 1)>> : c \in GivenRules}
           \cup {<<RuleObject(c1, 1), RuleObject(c2, 2)>> : c1 \in GivenRules, c2 \in GivenRules}

\* The identity of the next object to enter the catalog.
FreshId == 1 + SetMax({0} \cup {rules[i].id : i \in 1..Len(rules)})

\* add_rule(rule) with a new object of one of the classes
AddRule ==
    /\ pc = "start"
    /\ FreshId <= MaxRuleId
    /\ \E c \in GivenRules : rules' = AddRuleTo(rules, RuleObject(c, FreshId))
    /\ UNCHANGED <<scheduling, store, lastSaved>>

\* remove_rule(rule_name)
RemoveRule ==
    /\ pc = "start"
    /\ \E rule_name \in RuleClasses : rules' = RemoveRuleFrom(rules, rule_name)
    /\ UNCHANGED <<scheduling, store, lastSaved>>

CatalogInit == \E rules_arg \in ConstructorLists : CallOf(0, rules_arg, <<>>, 0, 0)

CatalogNext == AddRule \/ RemoveRule

CatalogSpec == CatalogInit /\ [][CatalogNext]_vars

\* ------------------------------------------------- several schedulers
\* What the constructors and add_rule / remove_rule of the schedulers leave
\* alone.
oneScheduler == <<n, prev, week, metadata, pc, stack, cand, fbDay, needing, intelOk, pending,
                  swap, improvements_made, cspOk, log, weeksLeft, rules, week_start, store,
                  lastSaved, month, current_monday, month_weeks>>

\* self.rules of a scheduler, given the module-level list as it is now.
CatalogOf(s, default_rules) == IF s.shared THEN default_rules ELSE s.rules

\* The identity of the next rule object to be created.
FreshRuleId ==
    1 + SetMax({0} \cup {module_rules[i].id : i \in 1..Len(module_rules)}
                   \cup UNION {{schedulers[k].rules[i].id : i \in 1..Len(schedulers[k].rules)} :
                                  k \in 1..Len(schedulers)})

\* WeekScheduler(employees): "rules or DEFAULT_RULES.copy()" takes a copy of
\* the module-level list, and the sort is made on the copy
\* (ExcelGenerator.__init__).
ConstructWithNone ==
    /\ Len(schedulers) < MaxSchedulers
    /\ schedulers' = Append(schedulers,
                            [shared |-> FALSE, rules |-> SortByPriority(module_rules)])
    /\ UNCHANGED <<oneScheduler, module_rules>>

\* WeekScheduler(employees, DEFAULT_RULES): "rules or DEFAULT_RULES.copy()" is
\* the list that was passed unless it is empty, and the sort is made in place
\* (main.py).
ConstructWithDefaultRules ==
    /\ Len(schedulers) < MaxSchedulers
    /\ schedulers' = Append(schedulers, [shared |-> module_rules # <<>>, rules |-> <<>>])
    /\ module_rules' = SortByPriority(module_rules)
    /\ UNCHANGED oneScheduler

\* add_rule(rule) of one of the schedulers, with a new rule object.
SchedulerAddRule ==
    /\ FreshRuleId <= MaxRuleId
    /\ \E k \in 1..Len(schedulers) : \E c \in GivenRules :
          IF schedulers[k].shared
          THEN /\ module_rules' = AddRuleTo(module_rules, RuleObject(c, FreshRuleId))
               /\ UNCHANGED schedulers
          ELSE /\ schedulers' = [schedulers EXCEPT
                                    ![k].rules = AddRuleTo(@, RuleObject(c, FreshRuleId))]
               /\ UNCHANGED module_rules
    /\ UNCHANGED oneScheduler

\* remove_rule(rule_name) of one of the schedulers.
SchedulerRemoveRule ==
    /\ \E k \in 1..Len(schedulers) : \E c \in GivenRules :
          IF schedulers[k].shared
          THEN /\ module_rules' = RemoveRuleFrom(module_rules, c)
               /\ UNCHANGED schedulers
          ELSE /\ schedulers' = [schedulers EXCEPT
                                    ![k].rules = RemoveRuleFrom(@, c)]
               /\ UNCHANGED module_rules
    /\ UNCHANGED oneScheduler

SchedulersInit == CallOf(0, <<>>, <<>>, 0, 0)

SchedulersNext ==
    \/ ConstructWithNone
    \/ ConstructWithDefaultRules
    \/ SchedulerAddRule
    \/ SchedulerRemoveRule

SchedulersSpec == SchedulersInit /\ [][SchedulersNext]_vars

\* ------------------------------------------------- operations on the storage
\* save_week(week_plan)
SaveWeek ==
    /\ \E plan \in StoredPlans :
          /\ store' = SaveWeekTo(store, plan)
          /\ lastSaved' = {p \in lastSaved : p.week_start # plan.week_start} \cup {plan}
    /\ UNCHANGED <<scheduling, rules>>

\* delete_week(week_start)
DeleteWeek ==
    /\ \E ws \in StoreDates :
          /\ store' = DeleteWeekFrom(store, ws)
          /\ lastSaved' = {p \in lastSaved : p.week_start # ws}
    /\ UNCHANGED <<scheduling, rules>>

\* clear_all()
ClearAll ==
    /\ store' = <<>>
    /\ lastSaved' = {}
    /\ UNCHANGED <<scheduling, rules>>

\* PlanStorage on a file that does not exist yet: {"weeks": []}
StorageInit == CallOf(0, <<>>, <<>>, 0, 0)

StorageNext == SaveWeek \/ DeleteWeek \/ ClearAll

StorageSpec == StorageInit /\ [][StorageNext]_vars

\* ------------------------------------------- generation of a month of weeks
\* The calendar: day 0 is Monday, 1 January of a year that is not a leap year.
DaysInMonth == <<31, 28, 31, 30, 31, 30, 31, 31, 30, 31, 30, 31>>

\* date(year, month, 1)
FirstDay(m) == SumTo([k \in 0..11 |-> DaysInMonth[k + 1]], m - 1)

\* date(year, month + 1, 1) - timedelta(days=1), or 31 December
LastDay(m) == FirstDay(m) + DaysInMonth[m] - 1

\* date.weekday()
Weekday(d) == d % 7

\* The Monday of the last week before the calendar.
LastMondayBefore == 0 - 7

\* The storage files the month generator starts with, for a roster of k: a
\* file that does not exist, or a file with one week of an earlier year, in
\* which one employee was on call all week.
StartFiles(k) ==
    {{}} \cup
    {{WeekPlanOf(LastMondayBefore, HistoryWeek(oc, k), {"generated_at", "rules_applied"})} :
        oc \in {p \in [Days -> 1..k] : SameEmployeeAllWeek(p)}}

\* ExcelGenerator(employees, storage)
MonthInit ==
    \E k \in 1..MaxEmp : \E file \in StartFiles(k) :
        /\ n = k
        /\ prev = <<>>
        /\ week_start = 0
        /\ weeksLeft = 0
        /\ week = EmptyWeek(k)
        /\ metadata = {"generated_at", "rules_applied"}
        /\ pc = "idle"
        /\ stack = <<>>
        /\ cand = 1
        /\ fbDay = 0
        /\ needing = {}
        /\ intelOk = TRUE
        /\ pending = <<>>
        /\ swap = <<>>
        /\ improvements_made = 0
        /\ cspOk = FALSE
        /\ log = {}
        /\ rules = NewCatalog(<<>>)
        /\ store = (IF file = {} THEN <<>>
                    ELSE SaveWeekTo(<<>>, CHOOSE plan \in file : TRUE))
        /\ lastSaved = file
        /\ month = 0
        /\ current_monday = 0
        /\ month_weeks = <<>>
        /\ module_rules = DEFAULT_RULES
        /\ schedulers = <<>>

\* What the loop of _get_or_generate_month_weeks leaves alone when it does
\* not call generate_week.
generating == <<n, prev, week, metadata, stack, cand, fbDay, needing, intelOk, pending, cspOk,
                swap, improvements_made,
                log, weeksLeft, rules, week_start, module_rules, schedulers>>

\* generate_month_schedule(year, month) calls _get_or_generate_month_weeks,
\* which starts at the Monday of the week of the first day of the month.
GetOrGenerateMonthWeeks ==
    /\ pc = "idle"
    /\ \E m \in 1..MaxMonths :
          /\ month' = m
          /\ current_monday' = FirstDay(m) - Weekday(FirstDay(m))
    /\ pc' = "month_loop"
    /\ month_weeks' = <<>>
    /\ UNCHANGED <<generating, store, lastSaved>>

\* "if current_monday > last_day: break", and the return of the weeks.
MonthLoopBreak ==
    /\ pc = "month_loop"
    /\ current_monday > LastDay(month)
    /\ pc' = "idle"
    /\ month' = 0
    /\ UNCHANGED <<generating, store, lastSaved, current_monday, month_weeks>>

\* An iteration for a week that load_week finds in the storage (or that does
\* not overlap the month).
MonthLoopLoad ==
    /\ pc = "month_loop"
    /\ current_monday <= LastDay(month)
    /\ \/ current_monday + 6 < FirstDay(month)
       \/ LoadWeekFrom(store, current_monday) # <<>>
    /\ month_weeks' = IF current_monday + 6 < FirstDay(month) THEN month_weeks
                      ELSE month_weeks \o LoadWeekFrom(store, current_monday)
    /\ current_monday' = current_monday + 7
    /\ UNCHANGED <<generating, store, lastSaved, month, pc>>

\* An iteration for a week that is not stored: load_previous_weeks and the
\* call of generate_week.
MonthLoopGenerate ==
    /\ pc = "month_loop"
    /\ current_monday <= LastDay(month)
    /\ current_monday + 6 >= FirstDay(month)
    /\ LoadWeekFrom(store, current_monday) = <<>>
    /\ prev' = Assignments(LoadPreviousWeeksFrom(store, current_monday, HistoryCount))
    /\ week_start' = current_monday
    /\ week' = EmptyWeek(n)
    /\ metadata' = {"generated_at", "rules_applied"}
    /\ pc' = "start"
    /\ stack' = <<>>
    /\ cand' = 1
    /\ fbDay' = 0
    /\ needing' = {}
    /\ intelOk' = TRUE
    /\ pending' = <<>>
    /\ swap' = <<>>
    /\ improvements_made' = 0
    /\ cspOk' = FALSE
    /\ log' = {}
    /\ UNCHANGED <<n, weeksLeft, rules, store, lastSaved, month, current_monday, month_weeks,
                   module_rules, schedulers>>

\* generate_week has returned: save_week, and the next Monday.
MonthLoopSave ==
    /\ pc = "done"
    /\ month # 0
    /\ LET plan == WeekPlanOf(week_start, week, metadata)
       IN  /\ store' = SaveWeekTo(store, plan)
           /\ lastSaved' = {p \in lastSaved : p.week_start # plan.week_start} \cup {plan}
           /\ month_weeks' = Append(month_weeks, plan)
    /\ current_monday' = current_monday + 7
    /\ pc' = "month_loop"
    /\ UNCHANGED <<generating, month>>

MonthNext ==
    \/ GetOrGenerateMonthWeeks
    \/ MonthLoopBreak
    \/ MonthLoopLoad
    \/ MonthLoopGenerate
    \/ MonthLoopSave
    \/ GenerateWithCsp
    \/ BacktrackTry
    \/ BacktrackExhausted
    \/ BacktrackLeaf
    \/ AssignMandatoryRestPhase
    \/ AssignOnCallDuties
    \/ IntelligentRule2
    \/ IntelligentSwap
    \/ PreemptiveRule2
    \/ PreemptiveReserve
    \/ EnsureMinimumOncall
    \/ EnforceMissing
    \/ CompleteSwap
    \/ FillRemaining
    \/ OptimizeFairness
    \/ FairnessIteration

MonthSpec == MonthInit /\ [][MonthNext]_vars

\* ------------------------------------------------------------------- typing
Returned == pc = "done"

\* ------------------------------------------------------------------- claims
\* The returned plan carries a flag that marks it as degraded.
FlaggedDegraded == "degraded" \in metadata

WasOnCall(e, d) == prev # <<>> /\ prev[1][d][e] = ON_CALL

\* C1: in every week returned by generate_week that is not flagged as
\* degraded, exactly one employee holds ON_CALL on each of the seven days.
C1_ExactlyOneOnCallPerDay ==
    (Returned /\ ~FlaggedDegraded)
        => \A d \in Days : Cardinality(GetOnCallEmployees(week, d)) = 1

\* C2: in every returned week that is not flagged as degraded, every employee
\* of the roster has at least one and at most two ON_CALL days.
C2_OneOrTwoOnCallDays ==
    (Returned /\ ~FlaggedDegraded)
        => \A e \in Emps : OnCallCount(week, e) \in 1..2

\* The same-week rest window of an on-call day, as the specification lists it.
RestWindow ==
    [d \in Days |->
        IF d = 0 THEN {1} ELSE IF d = 1 THEN {2} ELSE IF d = 2 THEN {3}
        ELSE IF d = 3 THEN {4, 5, 6} ELSE IF d = 4 THEN {5, 6}
        ELSE IF d = 5 THEN {6} ELSE {}]

\* C3: in every returned week, each ON_CALL cell is followed by REST for the
\* same employee on every day of its same-week rest window.
C3_RestTableHolds ==
    Returned
        => \A e \in Emps : \A d \in Days :
              week[d][e] = ON_CALL => \A r \in RestWindow[d] : week[r][e] = REST

\* C3 witness: a week returned by the fallback in which somebody is on call on
\* Thursday (three rest days) and somebody on Monday.
C3_Witness ==
    /\ Returned /\ ~cspOk
    /\ GetOnCallEmployees(week, 3) # {}
    /\ GetOnCallEmployees(week, 0) # {}
    /\ \A e \in GetOnCallEmployees(week, 3) : \A r \in {4, 5, 6} : week[r][e] = REST

\* C4: once the carryover rest is written, and up to the returned week, the
\* Monday cell of an employee who was on call on Friday of the previous week
\* is REST, and the Monday and Tuesday cells of an employee who was on call on
\* Saturday or Sunday are REST; no phase of either path overrides them.
C4_CarryoverRestKept ==
    (pc # "start" /\ prev # <<>>)
        => \A e \in Emps :
              /\ WasOnCall(e, 4) => week[0][e] = REST
              /\ (WasOnCall(e, 5) \/ WasOnCall(e, 6))
                    => (week[0][e] = REST /\ week[1][e] = REST)

\* C4 witness: a week returned by the fallback after an emergency assignment,
\* for a history with an employee on call on Saturday and another on Friday.
C4_Witness ==
    /\ Returned /\ ~cspOk /\ log # {}
    /\ \E e \in Emps : WasOnCall(e, 5) /\ week[0][e] = REST /\ week[1][e] = REST
    /\ \E e \in Emps : WasOnCall(e, 4) /\ ~WasOnCall(e, 5) /\ ~WasOnCall(e, 6)
                          /\ week[0][e] = REST

\* C5: in every returned week no employee is ON_CALL on a mandatory carryover
\* WORK cell: Monday after a Thursday on-call, Tuesday after a Friday on-call,
\* Wednesday after a Saturday or Sunday on-call of the previous week.
C5_MandatoryWorkNeverOnCall ==
    Returned
        => \A e \in Emps :
              /\ WasOnCall(e, 3) => week[0][e] # ON_CALL
              /\ WasOnCall(e, 4) => week[1][e] # ON_CALL
              /\ (WasOnCall(e, 5) \/ WasOnCall(e, 6)) => week[2][e] # ON_CALL

\* C6: in every returned week the Monday cell of an employee who was on call
\* on Thursday of the previous week is WORK.
C6_MondayWorkAfterThursday ==
    Returned => \A e \in Emps : WasOnCall(e, 3) => week[0][e] = WORK

\* The console announced the assignment of e on day d as an emergency
\* assignment (the only messages that tell of an assignment made against rules).
LoggedViolation(e, d) == \E l \in log : l.emp = e /\ l.day = d

\* C7: in every returned week no employee is ON_CALL on a day of the week on
\* which the employee was ON_CALL in the previous week, unless a rule
\* violation was logged for that assignment.
C7_NoSameWeekdayUnlessLogged ==
    Returned
        => \A e \in Emps : \A d \in Days :
              (week[d][e] = ON_CALL /\ WasOnCall(e, d)) => LoggedViolation(e, d)

\* C8: in every returned week no employee who was on call on Saturday or
\* Sunday of the previous week is ON_CALL on Saturday or Sunday.
C8_NoConsecutiveWeekend ==
    Returned
        => \A e \in Emps :
              (WasOnCall(e, 5) \/ WasOnCall(e, 6))
                  => (week[5][e] # ON_CALL /\ week[6][e] # ON_CALL)

\* The week generate_week returns once _fill_remaining_days produced plan.
ReturnedAfterFill(plan) ==
    IF cspOk THEN plan ELSE OptimizeFairnessPostAssignment(plan, prev)

\* C9: the grid generate_week returns is the one it would return, for the same
\* roster, rules, week_start and previous_data, whatever the store holds.
C9_Determinism ==
    [][pc = "fill"
         => \A previous_weeks \in StoreReads :
               ReturnedAfterFill(FillRemainingDays(week, previous_weeks))
                   = ReturnedAfterFill(week')]_vars

\* C10: in every returned week every cell holds WORK, ON_CALL or REST.
C10_EveryCellAssigned ==
    Returned => \A d \in Days : \A e \in Emps : week[d][e] \in DayType

\* C10 witness: weeks returned by the backtracking path and by the fallback
\* path after repair, with cells that only _fill_remaining_days assigned.
C10_Witness ==
    /\ Returned /\ ~cspOk /\ ~intelOk
    /\ \E e \in Emps : week[0][e] = WORK
    /\ \E e \in Emps : week[5][e] = REST /\ week[4][e] = WORK
    /\ \A d \in Days : \A e \in Emps : week[d][e] # None

\* C11: for a roster of three employees and an empty history the returned
\* week holds seven ON_CALL cells, exactly one on each day, every employee has
\* one or two of them, and every ON_CALL day is followed by its rest window.
C11_ScenarioA ==
    (Returned /\ n = 3 /\ prev = <<>>)
        => /\ Cardinality({<<d, e>> \in Days \X Emps : week[d][e] = ON_CALL}) = 7
           /\ \A d \in Days : Cardinality(GetOnCallEmployees(week, d)) = 1
           /\ \A e \in Emps : OnCallCount(week, e) \in 1..2
           /\ \A e \in Emps : \A d \in Days :
                 week[d][e] = ON_CALL => \A r \in RestWindow[d] : week[r][e] = REST

\* C12: for a roster of three employees whose third employee was on call on
\* Saturday and on Sunday of the previous week, the returned week has that
\* employee on call on neither weekend day and on at least one weekday.
C12_ScenarioB ==
    (Returned /\ n = 3 /\ WasOnCall(3, 5) /\ WasOnCall(3, 6))
        => /\ week[5][3] # ON_CALL
           /\ week[6][3] # ON_CALL
           /\ \E d \in 0..4 : week[d][3] = ON_CALL

\* C13: for a roster of five employees every returned week has an employee
\* with exactly two ON_CALL days and no employee with more than two.
C13_ScenarioD ==
    (Returned /\ n = 5)
        => /\ \E e \in Emps : OnCallCount(week, e) = 2
           /\ \A e \in Emps : OnCallCount(week, e) <= 2

\* C14: generate_week returns no week that lacks an ON_CALL employee on some
\* day (it raises an infeasibility error instead).
C14_NoWeekWithoutCoverage ==
    Returned => \A d \in Days : GetOnCallEmployees(week, d) # {}

\* C15: for an empty roster or a week_start that is not a Monday the call is
\* rejected at once: no plan is created and no phase of generate_week runs.
C15_InvalidInputRejected ==
    (n = 0 \/ week_start % 7 # 0) => pc = "start"

\* An ON_CALL cell of the plan that some rule of the catalog refuses.
BreaksRule(plan) ==
    \E e \in Emps : \E d \in Days :
        plan[d][e] = ON_CALL /\ ~ValidateAssignment(e, d, ON_CALL, plan, prev)

\* C16: a returned week in which an employee of the roster has no ON_CALL day,
\* or in which an assignment breaks a rule, is flagged as degraded.
C16_ResidualFlagged ==
    (Returned /\ ((\E e \in Emps : OnCallCount(week, e) = 0) \/ BreaksRule(week)))
        => FlaggedDegraded

\* C13 witness: a week of the backtracking path for five employees, after a
\* previous week, in which an employee holds two ON_CALL days.
C13_Witness ==
    /\ Returned /\ n = 5 /\ cspOk /\ prev # <<>>
    /\ \E e \in Emps : OnCallCount(week, e) = 2

\* C17: every call of generate_week returns a week, for every roster (the
\* empty one and one larger than the week has days included).
C17_AlwaysReturns == (pc = "start") ~> Returned

\* C17 witness: the call has returned for a roster of more employees than days,
\* after the search tree of the backtracking solver was exhausted.
C17_Witness == Returned /\ n > Cardinality(Days) /\ ~cspOk

\* C19: no step of generate_week changes previous_data, a week in it, or the
\* roster.
C19_InputsUnchanged == [][pc # "done" => (prev' = prev /\ n' = n)]_vars

\* C19 witness: a week returned by the fallback path, whose carryover phase
\* read the weekend of the previous week.
C19_Witness ==
    /\ Returned /\ ~cspOk /\ prev # <<>>
    /\ \E e \in Emps : WasOnCall(e, 5) /\ week[0][e] = REST

\* C18: the catalog is sorted by descending priority, and rules of equal
\* priority stand in the order in which they entered it.
C18_CatalogSorted ==
    \A i \in 1..Len(rules) : \A j \in 1..Len(rules) :
        i < j => /\ rules[i].priority >= rules[j].priority
                 /\ rules[i].priority = rules[j].priority => rules[i].id < rules[j].id

\* C18 witness: after add_rule, a catalog with two rules of the same priority
\* and a rule given to the constructor.
C18_Witness ==
    /\ Len(rules) >= 3
    /\ \E i \in 1..(Len(rules) - 1) :
          rules[i].priority = rules[i + 1].priority /\ rules[i + 1].id > 2
    /\ \E i \in 1..Len(rules) : rules[i].id = 1 /\ rules[i].name \in GivenRules

\* C20: the store holds at most one entry per week_start, and load_week
\* returns, for every date, the plan of the last save_week for that date that
\* no delete_week or clear_all has removed since, and None if there is none.
C20_StoreKeyedByWeekStart ==
    /\ \A i \in 1..Len(store) : \A j \in 1..Len(store) :
          i # j => store[i].week_start # store[j].week_start
    /\ \A ws \in StoreDates :
          LoadWeekFrom(store, ws) =
              (IF \E p \in lastSaved : p.week_start = ws
               THEN <<CHOOSE p \in lastSaved : p.week_start = ws>>
               ELSE <<>>)

\* C20 witness: a plan was saved over another plan of its week, a plan of
\* another week was deleted, and load_week returns the plan saved last.
C20_Witness ==
    /\ Len(store) = 2
    /\ Cardinality(lastSaved) = 2
    /\ \E p \in lastSaved :
          /\ p.week_start = 7
          /\ p.assignments = FridayWeek(2, 3)
          /\ LoadWeekFrom(store, 7) = <<p>>

\* The dates and counts that load_previous_weeks is called with: Mondays and
\* days inside a week, and counts from none to more weeks than are stored.
LoadDates == {7 * k + d : k \in 0..MaxStoredWeeks, d \in {0, 3}}

LoadCounts == 0..(MaxStoredWeeks + 1)

\* C21: load_previous_weeks(from_date, count) returns at most count weeks,
\* each a stored plan whose week_start is strictly before from_date, most
\* recent first, and they are the stored weeks closest to from_date: as many
\* as count allows, and no stored earlier week is closer than a returned one.
C21_LoadPreviousWeeks ==
    \A from_date \in LoadDates : \A count \in LoadCounts :
        LET r == LoadPreviousWeeksFrom(store, from_date, count)
            before == {p \in lastSaved : p.week_start < from_date}
        IN  /\ Len(r) <= count
            /\ Len(r) = Min2(count, Cardinality(before))
            /\ \A i \in 1..Len(r) : r[i] \in before
            /\ \A i \in 1..Len(r) : \A j \in 1..Len(r) :
                  i < j => r[i].week_start > r[j].week_start
            /\ \A p \in before :
                  (\A i \in 1..Len(r) : r[i] # p)
                      => \A i \in 1..Len(r) : r[i].week_start > p.week_start

\* C21 witness: three weeks are stored, two of them before day 14, and
\* load_previous_weeks(day 14, 1) returns the week of day 7 only.
C21_Witness ==
    /\ Len(store) = 3
    /\ \A ws \in {0, 7, 14} : LoadWeekFrom(store, ws) # <<>>
    /\ LET r == LoadPreviousWeeksFrom(store, 14, 1)
       IN  Len(r) = 1 /\ r[1].week_start = 7 /\ r[1] \in lastSaved

\* C22: while the month generator has a week W generated, the carryover of W
\* is the one derived from the stored week of W minus 7 days alone (none if
\* that week is not stored), and the week after W is not stored yet, so that
\* no week is generated before the week that precedes it.
C22_CarryoverFromPreviousWeek ==
    (month # 0 /\ pc \notin {"idle", "month_loop"}) =>
        /\ AssignMandatoryRest(EmptyWeek(n), prev) =
              AssignMandatoryRest(EmptyWeek(n),
                                  Assignments(LoadWeekFrom(store, week_start - 7)))
        /\ LoadWeekFrom(store, week_start + 7) = <<>>

\* _generate_with_csp has returned True.
CspReturnedTrue == pc = "done" /\ cspOk

\* C23: when _generate_with_csp returns True, every day has exactly one
\* ON_CALL employee, every employee of the roster has an ON_CALL day, every
\* ON_CALL cell passes every rule of the catalog against the final grid, and
\* no ON_CALL cell is a mandatory WORK cell of the carryover or of the week.
C23_SolverSoundness ==
    CspReturnedTrue =>
        /\ \A d \in Days : Cardinality(GetOnCallEmployees(week, d)) = 1
        /\ \A e \in Emps : OnCallCount(week, e) >= 1
        /\ \A d \in Days : \A e \in GetOnCallEmployees(week, d) :
              /\ ValidateAssignment(e, d, ON_CALL, week, prev)
              /\ ~IsMandatoryWork(e, d, prev)
              /\ ~IsMandatoryWorkSameWeek(e, d, week)

\* C23 witness: the solver returned True for a week with a carryover in
\* which some employee has a mandatory WORK day and another one is ON_CALL on
\* that day.
C23_Witness ==
    /\ CspReturnedTrue
    /\ prev # <<>>
    /\ \E d \in {0, 1, 2} : \E e \in Emps :
          /\ IsMandatoryWork(e, d, prev)
          /\ GetOnCallEmployees(week, d) # {}
          /\ e \notin GetOnCallEmployees(week, d)

\* The grid after _assign_mandatory_rest and the assignments of the employees
\* choices[1], choices[2], ... to Monday, Tuesday, ..., each with its rest.
RECURSIVE Replay(_, _)
Replay(choices, pd) ==
    IF choices = <<>> THEN AssignMandatoryRest(EmptyWeek(n), pd)
    ELSE AssignOnCallWithRest(Replay(SubSeq(choices, 1, Len(choices) - 1), pd),
                              choices[Len(choices)], Len(choices) - 1)

\* There is an assignment of one employee to each of the days day..6 in which
\* every choice is legal under _can_assign_oncall_csp given the grid left by
\* the earlier choices, and after which every employee has an ON_CALL day.
RECURSIVE ExistsLegal(_, _, _)
ExistsLegal(plan, day, pd) ==
    IF day >= 7 THEN CheckRule2Satisfied(plan)
    ELSE \E e \in Emps :
            /\ CanAssignOncallCsp(e, day, plan, pd)
            /\ ExistsLegal(AssignOnCallWithRest(plan, e, day), day + 1, pd)

\* C24: a call _backtrack_oncall_assignment(day) returns False only if the
\* choices of the earlier days have no legal completion; in particular the
\* search as a whole fails only if the week has no legal complete assignment.
C24_SolverCompleteness ==
    /\ (pc = "backtrack" /\ Len(stack) < 7 /\ cand > n)
          => ~ExistsLegal(Replay(stack, prev), Len(stack), prev)
    /\ (pc = "mandatory_rest")
          => ~ExistsLegal(Replay(<<>>, prev), 0, prev)

\* C24 witness: the frame of Sunday of a roster of four or more has tried
\* every employee in vain, six days being assigned, and returns False.
C24_Witness ==
    /\ pc = "backtrack"
    /\ n >= 4
    /\ Len(stack) = 6
    /\ cand > n
    /\ \E e \in Emps : OnCallCount(week, e) = 0

\* C25: whenever a call _backtrack_oncall_assignment(day) has returned False
\* and its assignment is undone, the grid is the grid at the entry of the
\* call: at every point of the search the grid is the carryover REST cells
\* plus the ON_CALL cells of the active frames and the REST cells they
\* produced, and after a failed search it is the carryover REST cells alone.
C25_UndoIsExact ==
    /\ pc = "backtrack" => week = Replay(stack, prev)
    /\ pc = "mandatory_rest" => week = AssignMandatoryRest(EmptyWeek(n), prev)

\* C25 witness: the search has undone the ON_CALL of an employee on Thursday
\* (the loop of the frame of Thursday is past that employee), in a week with
\* carryover REST cells, and the employee has no REST cell left after it.
C25_Witness ==
    /\ pc = "backtrack"
    /\ Len(stack) = 3
    /\ cand > 1
    /\ prev # <<>>
    /\ \E e \in Emps : \E d \in {0, 1} : IsMandatoryRest(e, d, prev)
    /\ \E e \in 1..(cand - 1) :
          /\ CanAssignOncallCsp(e, 3, week, prev)
          /\ \A d \in {4, 5, 6} : GetAssignment(week, d, e) = None

\* No legal complete assignment is lexicographically less than choices: at no
\* day does an employee of a smaller roster index than the chosen one have a
\* legal assignment with a legal completion.
LexLeast(choices, pd) ==
    \A i \in 1..Len(choices) : \A e \in 1..(choices[i] - 1) :
        LET plan == Replay(SubSeq(choices, 1, i - 1), pd)
        IN  ~(/\ CanAssignOncallCsp(e, i - 1, plan, pd)
              /\ ExistsLegal(AssignOnCallWithRest(plan, e, i - 1), i, pd))

\* C26: the week the solver returns has the employees of its frames ON_CALL
\* on Monday..Sunday, and this sequence of roster indices is the least, in
\* lexicographic order, of all complete legal assignments.
C26_LexicographicallyLeast ==
    CspReturnedTrue =>
        /\ Len(stack) = 7
        /\ \A d \in Days : GetOnCallEmployees(week, d) = {stack[d + 1]}
        /\ LexLeast(stack, prev)

\* C26 witness: the solver returned a week in which, on some day, an employee
\* of a smaller roster index than the chosen one could be assigned legally
\* but had no legal completion.
C26_Witness ==
    /\ CspReturnedTrue
    /\ \E i \in 1..Len(stack) : \E e \in 1..(stack[i] - 1) :
          CanAssignOncallCsp(e, i - 1, Replay(SubSeq(stack, 1, i - 1), prev), prev)

\* C27: in every week generate_week returns, by the solver or by the
\* fallback, no employee is ON_CALL on both Monday and Wednesday, on both
\* Tuesday and Thursday, or on both Wednesday and Friday.
C27_NoSameWeekEcho ==
    Returned =>
        \A e \in Emps : \A d \in {0, 1, 2} :
            ~(GetAssignment(week, d, e) = ON_CALL /\ GetAssignment(week, d + 2, e) = ON_CALL)

\* C28: no step of _ensure_minimum_oncall_per_week (intelligent swap,
\* preemptive reservation, relaxed swap, last resort) takes the last ON_CALL
\* day of an employee: who has an ON_CALL day before the step has one after.
C28_RepairKeepsCovered ==
    [][(pc \in {"intelligent_loop", "preemptive_loop", "enforce_loop"})
          => (\A e \in Emps :
                OnCallCount(week, e) >= 1 => OnCallCount(week', e) >= 1)]_vars

\* C28 witness: the repair has taken a day from an employee, who got WORK
\* on it, and this employee still has an ON_CALL day.
C28_Witness ==
    /\ pc \in {"intelligent_loop", "preemptive_loop", "enforce", "enforce_loop", "fill"}
    /\ ~cspOk
    /\ \E e \in Emps : \E d \in Days :
          /\ GetAssignment(week, d, e) = WORK
          /\ FirstOnCall(week, d) # 0
          /\ OnCallCount(week, e) >= 1

\* A step of the repair writes ON_CALL only into cells that pass validate for
\* every rule of priority >= 88 against the grid before the write.
RepairAssignmentsPassHighPriority ==
    \A d \in Days : \A e \in Emps :
        (GetAssignment(week, d, e) # ON_CALL /\ GetAssignment(week', d, e) = ON_CALL)
            => ValidateHighPriority(e, d, week, prev)

\* C29: every ON_CALL assignment of the minimum-on-call repair (intelligent
\* swap, preemptive reservation, relaxed swap, last resort) passes validate for
\* every rule of the catalog of priority >= 88 at the moment it is made.
C29_RepairRespectsHighPriority ==
    [][(pc \in {"intelligent_loop", "preemptive_loop", "enforce_loop"})
          => RepairAssignmentsPassHighPriority]_vars

\* C29 witness: the repair has placed an employee on a day on which the
\* employee was on call the week before: the cell breaks the same-weekday rule
\* of priority 80, it is no emergency assignment of the greedy phase, and it
\* passes the rules of priority >= 88.
C29_Witness ==
    /\ pc = "fill"
    /\ ~cspOk
    /\ \E e \in Emps : \E d \in Days :
          /\ GetAssignment(week, d, e) = ON_CALL
          /\ \A entry \in log : ~(entry.emp = e /\ entry.day = d)
          /\ ~NoConsecutiveWeekdayRule(e, d, ON_CALL, week, prev)
          /\ ValidateHighPriority(e, d, week, prev)

\* The rules of the catalog that validate rejects for ON_CALL of e on the day.
BrokenRules(e, day, plan, pd) ==
    {i \in 1..Len(rules) : ~RuleValidate(rules[i], e, day, ON_CALL, plan, pd)}

\* The highest priority among the broken rules, 0 when none is broken.
HighestBroken(e, day, plan, pd) ==
    IF BrokenRules(e, day, plan, pd) = {} THEN 0
    ELSE SetMax({rules[i].priority : i \in BrokenRules(e, day, plan, pd)})

\* e2 would be a milder forced choice than e: its highest broken rule has a
\* strictly lower priority, or the same one with fewer rules broken.
MilderChoice(e2, e, day, plan, pd) ==
    \/ HighestBroken(e2, day, plan, pd) < HighestBroken(e, day, plan, pd)
    \/ /\ HighestBroken(e2, day, plan, pd) = HighestBroken(e, day, plan, pd)
       /\ Cardinality(BrokenRules(e2, day, plan, pd))
             < Cardinality(BrokenRules(e, day, plan, pd))

\* C30: when nobody passes all rules for the day of the greedy phase and the
\* assignment is forced (emergency or last resort), no other employee with a
\* free cell on that day would be a milder choice than the one who gets the day.
C30_ForcedChoiceIsMildest ==
    (pc = "on_call") =>
        LET c == OnCallChoice(fbDay, week, prev, needing)
        IN  (c.kind \in {"emergency", "critical"}) =>
                \A e2 \in LastResortCandidates(fbDay, week) :
                    ~MilderChoice(e2, c.emp, fbDay, week, prev)

\* The step exchanged the ON_CALL days day1 and day2 of two employees.
SwappedDays(day1, day2, emp1, emp2) ==
    /\ day1 # day2 /\ emp1 # emp2
    /\ GetAssignment(week, day1, emp1) = ON_CALL
    /\ GetAssignment(week, day2, emp2) = ON_CALL
    /\ GetAssignment(week', day1, emp2) = ON_CALL
    /\ GetAssignment(week', day2, emp1) = ON_CALL
    /\ GetAssignment(week', day1, emp1) # ON_CALL
    /\ GetAssignment(week', day2, emp2) # ON_CALL

\* C31: the fairness optimizer ends after at most 3 iterations and makes at
\* most 3 swaps in one call of generate_week: every iteration either ends the
\* loop or counts one more swap, and the count never passes 3. Every swap
\* exchanges the days of two employees, both new ON_CALL cells pass validate
\* on the grid before the swap, and the absolute gap of the two composite
\* scores goes down by more than 0.2.
C31_OptimizerBoundedAndSound ==
    [][(pc = "fairness_loop") =>
          (/\ improvements_made' <= 3
           /\ (pc' = "done" \/ improvements_made' = improvements_made + 1)
           /\ (pc' = "fairness_loop" => improvements_made' < 3)
           /\ (week' # week =>
                 /\ improvements_made' = improvements_made + 1
                 /\ \E day1 \in Days : \E day2 \in Days :
                    \E emp1 \in Emps : \E emp2 \in Emps :
                       /\ SwappedDays(day1, day2, emp1, emp2)
                       /\ ValidateAssignment(emp2, day1, ON_CALL, week, prev)
                       /\ ValidateAssignment(emp1, day2, ON_CALL, week, prev)
                       /\ Abs(CompositeScore(emp1, week', prev)
                                - CompositeScore(emp2, week', prev))
                            < Abs(CompositeScore(emp1, week, prev)
                                    - CompositeScore(emp2, week, prev)) - 20))]_vars

\* C31 witness: the optimizer has run on a week of the fallback with a history
\* in which two different employees hold ON_CALL days, so that it had pairs
\* to test, and it has returned.
C31_Witness ==
    /\ pc = "done"
    /\ ~cspOk
    /\ prev # <<>>
    /\ improvements_made <= 3
    /\ \E day1 \in Days : \E day2 \in Days :
          /\ LastOnCall(week, day1) # 0
          /\ LastOnCall(week, day2) # 0
          /\ LastOnCall(week, day1) # LastOnCall(week, day2)

\* C32: the phases of generate_week run in the order carryover resolution,
\* on-call assignment, fairness optimizer: the on-call assignment (solver or
\* greedy) is entered only from a step that resolved the carryover, and a week
\* is returned only by the fairness optimizer, also when the solver succeeds.
C32_PipelineOrder ==
    [][/\ (pc # "backtrack" /\ pc' = "backtrack") => pc = "start"
       /\ (pc # "on_call" /\ pc' = "on_call") => pc = "mandatory_rest"
       /\ (pc # "done" /\ pc' = "done") => (pc \in {"fairness", "fairness_loop"})]_vars

\* The list _choose_employee_for_oncall hands to _select_by_fairness_score.
SelectionCandidates(available, employees_needing_oncall) ==
    IF employees_needing_oncall # {} /\ available \cap employees_needing_oncall # {}
    THEN available \cap employees_needing_oncall
    ELSE available

\* C33: the employee _select_by_fairness_score returns has the minimum
\* composite score of the candidates, no candidate has a strictly lower
\* score, and among the candidates of that score it is the first name.
C33_SelectsMinimumScore ==
    (pc = "on_call") =>
        LET available == AvailableEmployees(fbDay, week, prev)
            candidates == SelectionCandidates(available, needing)
            scores == CalculateComprehensiveFairnessScores(available, week, prev)
            chosen == SelectByFairnessScore(candidates, scores)
        IN  Cardinality(available) > 1 =>
                /\ \A c \in candidates : scores[chosen] <= scores[c]
                /\ \A c \in candidates : scores[c] = scores[chosen] => chosen <= c

\* A rest day the rest-after-on-call rules mandate for e: the day after an
\* ON_CALL day of e in the week, or Monday or Tuesday after an ON_CALL day of
\* e on the weekend of the previous week.
MandatedRestDay(e, day, plan, pd) ==
    \/ day > 0 /\ GetAssignment(plan, day - 1, e) = ON_CALL
    \/ /\ day \in {0, 1}
       /\ pd # <<>>
       /\ \E wd \in {5, 6} : e \in GetOnCallEmployees(pd[1], wd)

\* C34: on a rest day mandated for an employee, validate of the
\* rest-after-on-call rules (RestAfterOnCallRule, WeekendRestAfterOnCallRule)
\* returns False for the duty WORK.
C34_RestRulesDemandRest ==
    \A e \in Emps : \A day \in Days :
        MandatedRestDay(e, day, week, prev) =>
            ~(/\ RestAfterOnCallRule(e, day, WORK, week, prev)
              /\ WeekendRestAfterOnCallRule(e, day, WORK, week, prev))

\* The week_start texts of the entries of the storage file.
StoredWeekStarts(weeks) == {weeks[i].week_start : i \in 1..Len(weeks)}

\* The Mondays of the weeks that overlap the month, in the order of the loop.
MonthMondays(m) ==
    LET first_monday == FirstDay(m) - Weekday(FirstDay(m))
    IN  [i \in 1..((LastDay(m) - first_monday) \div 7 + 1) |->
            first_monday + 7 * (i - 1)]

\* C35: month generation is idempotent on the store. generate_week is called
\* only for a week_start that has no stored entry; a step changes the file
\* only by adding the entry of such a week, and every entry already stored
\* stays as it is; and the weeks a call returns are the stored plans of the
\* weeks of the month, so a second call for the month changes nothing in the
\* file and returns the same weeks.
C35_MonthGenerationIdempotent ==
    [][/\ (pc = "month_loop" /\ pc' = "start") =>
              IsoFormat(current_monday) \notin StoredWeekStarts(store)
       /\ (store' # store =>
              /\ IsoFormat(week_start) \notin StoredWeekStarts(store)
              /\ \A i \in 1..Len(store) : \E j \in 1..Len(store') : store'[j] = store[i]
              /\ StoredWeekStarts(store') =
                    StoredWeekStarts(store) \cup {IsoFormat(week_start)})
       /\ (pc = "month_loop" /\ pc' = "idle") =>
              /\ Len(month_weeks) = Len(MonthMondays(month))
              /\ \A i \in 1..Len(month_weeks) : \E j \in 1..Len(store) :
                    /\ store[j].week_start = IsoFormat(MonthMondays(month)[i])
                    /\ FromDict(store[j]) = month_weeks[i]]_vars

\* C35 witness: a call for a month is at its return and has found every week
\* of the month stored: the last week generate_week made lies after the
\* month, and the call returns the stored plans of all its weeks.
C35_Witness ==
    /\ pc = "month_loop"
    /\ current_monday > LastDay(month)
    /\ week_start > LastDay(month)
    /\ Len(month_weeks) = Len(MonthMondays(month))
    /\ \A i \in 1..Len(month_weeks) :
          IsoFormat(month_weeks[i].week_start) \in StoredWeekStarts(store)

\* C36 as stated: in every state reached during generate_week and in the
\* returned week, no day has two or more employees holding ON_CALL.
C36_AtMostOneOnCallAtAllTimes ==
    \A d \in Days : Cardinality(GetOnCallEmployees(week, d)) <= 1

\* C36 amended: no day has two employees holding ON_CALL, except between the
\* two writes of a swap of the repair, when the day of the swap is held by
\* the employee who takes it and the employee who gives it up, and by nobody
\* else; every other day has at most one.
C36_AtMostOneOnCallOutsideSwaps ==
    /\ swap = <<>> => \A d \in Days : Cardinality(GetOnCallEmployees(week, d)) <= 1
    /\ swap # <<>> =>
          /\ GetOnCallEmployees(week, swap.day) = {swap.missing, swap.current}
          /\ \A d \in Days \ {swap.day} : Cardinality(GetOnCallEmployees(week, d)) <= 1

\* C36 witness: a swap of the repair is between its two writes, and its day
\* has two employees on call.
C36_Witness ==
    /\ swap # <<>>
    /\ swap.missing # swap.current
    /\ Cardinality(GetOnCallEmployees(week, swap.day)) = 2

\* C37: every week of the backtracking path (_generate_with_csp returned True)
\* has no employee with more than two ON_CALL days.
C37_SolverAtMostTwoOnCall ==
    CspReturnedTrue => \A e \in Emps : OnCallCount(week, e) <= 2

\* C37 witness: a week of the backtracking path in which an employee has two
\* ON_CALL days.
C37_Witness ==
    /\ CspReturnedTrue
    /\ \E e \in Emps : OnCallCount(week, e) = 2

AtMostOneOnCallPerDay ==
    \A d \in Days : Cardinality(GetOnCallEmployees(week, d)) <= 1

\* C39: when each day has at most one ON_CALL employee, exchanging the ON_CALL
\* days of two different employees leaves the composite score of both as it
\* was, _would_swap_improve_fairness is False for every pair of days with
\* different holders, and a step of the optimizer leaves the grid unchanged
\* (checked at every step of _optimize_fairness_post_assignment).
C39_SwapOfSingleHoldersChangesNothing ==
    [][(pc \in {"fairness", "fairness_loop"} /\ AtMostOneOnCallPerDay) =>
          (/\ \A day1, day2 \in Days :
                LET emp1 == LastOnCall(week, day1)
                    emp2 == LastOnCall(week, day2)
                    temp == SimulateSwap(week, emp1, emp2, day1, day2)
                IN  (day1 # day2 /\ emp1 # 0 /\ emp2 # 0 /\ emp1 # emp2) =>
                        /\ CompositeScore(emp1, temp, prev) = CompositeScore(emp1, week, prev)
                        /\ CompositeScore(emp2, temp, prev) = CompositeScore(emp2, week, prev)
                        /\ ~WouldSwapImproveFairness(emp1, emp2, day1, day2, week, prev)
           /\ week' = week)]_vars

\* C39 witness: the optimizer is at an iteration, each day has one ON_CALL
\* employee, and two of them have composite scores further apart than the
\* gain a swap has to bring.
C39_Witness ==
    /\ pc = "fairness_loop"
    /\ AtMostOneOnCallPerDay
    /\ \E day1, day2 \in Days :
          /\ LastOnCall(week, day1) # 0
          /\ LastOnCall(week, day2) # 0
          /\ Abs(CompositeScore(LastOnCall(week, day1), week, prev)
                   - CompositeScore(LastOnCall(week, day2), week, prev)) > SwapGain

\* C40: rule catalogs are independent: add_rule or remove_rule on one
\* WeekScheduler changes neither the module-level DEFAULT_RULES list nor the
\* catalog of another WeekScheduler, whether the schedulers were constructed
\* with rules=None or with rules=DEFAULT_RULES.
C40_CatalogsIndependent ==
    [][(Len(schedulers') = Len(schedulers)) =>
          (\A k \in 1..Len(schedulers) :
              (CatalogOf(schedulers'[k], module_rules') # CatalogOf(schedulers[k], module_rules)) =>
                  /\ module_rules' = module_rules
                  /\ \A j \in 1..Len(schedulers) \ {k} :
                        CatalogOf(schedulers'[j], module_rules')
                            = CatalogOf(schedulers[j], module_rules))]_vars

====
